---- MODULE Spec2Model ----
\* A model of the tool-dispatch core of the GitLab MCP server
\* (src/src/index.ts): the tool catalog, the list handler, and the
\* call handler with its read-only gate, argument validation, inline
\* pagination/date checks, backend calls and error translation.
EXTENDS Integers, Sequences, FiniteSets, TLC

\* ------------------------------------------------------------------
\* Values
\* ------------------------------------------------------------------

\* JavaScript's undefined: request.params.arguments when the caller sent none.
Undefined == [undefined |-> TRUE]

\* The restriction of a record to a set of field names (object destructuring,
\* and the key stripping done by a z.object() parse).
Restrict(f, D) == [k \in DOMAIN f \cap D |-> f[k]]

\* A record g laid over a record f: g's fields win ({...f, ...g}).
Overlay(f, g) == [k \in DOMAIN f \cup DOMAIN g |-> IF k \in DOMAIN g THEN g[k] ELSE f[k]]

\* Array.prototype.join for an array of strings.
RECURSIVE Join(_, _)
Join(strs, sep) ==
  IF strs = <<>> THEN ""
  ELSE IF Len(strs) = 1 THEN strs[1]
  ELSE strs[1] \o sep \o Join(Tail(strs), sep)

\* ------------------------------------------------------------------
\* Input contracts (./schemas.js) and the date helper (./utils.js)
\* ------------------------------------------------------------------

\* The input contracts imported from ./schemas.js (src/src/index.ts:14-69): the
\* fields of each contract, in declaration order.
SchemaShape(schema) ==
  CASE schema = "CreateOrUpdateFileSchema" -> <<"project_id", "file_path", "content", "commit_message", "branch", "previous_path">>
    [] schema = "SearchRepositoriesSchema" -> <<"search", "page", "per_page">>
    [] schema = "CreateRepositorySchema" -> <<"name", "description", "visibility">>
    [] schema = "GetFileContentsSchema" -> <<"project_id", "file_path", "ref">>
    [] schema = "PushFilesSchema" -> <<"project_id", "files", "commit_message", "branch">>
    [] schema = "CreateIssueSchema" -> <<"project_id", "title", "description">>
    [] schema = "CreateMergeRequestSchema" -> <<"project_id", "title", "source_branch", "target_branch", "description">>
    [] schema = "ForkRepositorySchema" -> <<"project_id", "namespace">>
    [] schema = "CreateBranchSchema" -> <<"project_id", "branch", "ref">>
    [] schema = "ListGroupProjectsSchema" -> <<"group_id", "page", "per_page">>
    [] schema = "GetProjectEventsSchema" -> <<"project_id", "page", "per_page">>
    [] schema = "ListCommitsSchema" -> <<"project_id", "page", "per_page", "since", "until">>
    [] schema = "ListIssuesSchema" -> <<"project_id", "page", "per_page", "created_after", "created_before", "updated_after", "updated_before">>
    [] schema = "ListMergeRequestsSchema" -> <<"project_id", "page", "per_page", "created_after", "created_before", "updated_after", "updated_before">>
    [] schema = "ListProjectWikiPagesSchema" -> <<"project_id", "with_content">>
    [] schema = "GetProjectWikiPageSchema" -> <<"project_id", "slug", "render_html", "version">>
    [] schema = "CreateProjectWikiPageSchema" -> <<"project_id", "title", "content", "format">>
    [] schema = "EditProjectWikiPageSchema" -> <<"project_id", "slug", "title", "content", "format">>
    [] schema = "DeleteProjectWikiPageSchema" -> <<"project_id", "slug">>
    [] schema = "UploadProjectWikiAttachmentSchema" -> <<"project_id", "file_path", "content", "branch">>
    [] schema = "ListGroupWikiPagesSchema" -> <<"group_id", "with_content">>
    [] schema = "GetGroupWikiPageSchema" -> <<"group_id", "slug", "render_html", "version">>
    [] schema = "CreateGroupWikiPageSchema" -> <<"group_id", "title", "content", "format">>
    [] schema = "EditGroupWikiPageSchema" -> <<"group_id", "slug", "title", "content", "format">>
    [] schema = "DeleteGroupWikiPageSchema" -> <<"group_id", "slug">>
    [] schema = "UploadGroupWikiAttachmentSchema" -> <<"group_id", "file_path", "content", "branch">>
    [] schema = "ListProjectMembersSchema" -> <<"project_id", "page", "per_page">>
    [] schema = "ListGroupMembersSchema" -> <<"group_id", "page", "per_page">>
    [] schema = "ListIssueNotesSchema" -> <<"project_id", "issue_iid", "sort", "order_by", "page", "per_page">>
    [] schema = "ListIssueDiscussionsSchema" -> <<"project_id", "issue_iid", "page", "per_page">>
    [] schema = "ListPipelinesSchema" -> <<"project_id", "page", "per_page">>
    [] schema = "GetPipelineSchema" -> <<"project_id", "pipeline_id">>
    [] schema = "GetPipelineJobsSchema" -> <<"project_id", "pipeline_id", "scope">>
    [] schema = "GetJobSchema" -> <<"project_id", "job_id">>
    [] schema = "GetJobLogSchema" -> <<"project_id", "job_id">>
    [] schema = "CreatePipelineSchema" -> <<"project_id", "ref", "variables">>
    [] schema = "RetryPipelineSchema" -> <<"project_id", "pipeline_id">>
    [] schema = "CancelPipelineSchema" -> <<"project_id", "pipeline_id">>
    [] schema = "RetryJobSchema" -> <<"project_id", "job_id">>
    [] schema = "CancelJobSchema" -> <<"project_id", "job_id">>
    [] schema = "ListProjectsSchema" -> <<"page", "per_page">>
    [] schema = "GetProjectSchema" -> <<"project_id">>
    [] schema = "ValidateCIYamlSchema" -> <<"project_id", "content", "include_merged_yaml">>
    [] schema = "GetProjectRunnersSchema" -> <<"project_id", "page", "per_page", "scope">>
    [] schema = "ListSharedRunnersSchema" -> <<"scope">>
    [] schema = "GetRunnerDetailsSchema" -> <<"runner_id">>
    [] schema = "EnableProjectRunnerSchema" -> <<"project_id", "runner_id">>
    [] schema = "DisableProjectRunnerSchema" -> <<"project_id", "runner_id">>
    [] schema = "RegisterRunnerSchema" -> <<"registration_token", "description", "tags">>
    [] schema = "ValidateRunnerTagsSchema" -> <<"project_id", "tags">>
    [] schema = "UpdateRunnerSettingsSchema" -> <<"runner_id", "description", "active">>
    [] schema = "GetRunnerJobsSchema" -> <<"runner_id", "page", "per_page", "status">>
    [] schema = "RunnerHealthCheckSchema" -> <<"runner_id">>

\* The fields a contract declares without .optional().
SchemaRequired(schema) ==
  CASE schema = "CreateOrUpdateFileSchema" -> {"project_id", "file_path", "content", "commit_message", "branch"}
    [] schema = "SearchRepositoriesSchema" -> {"search"}
    [] schema = "CreateRepositorySchema" -> {"name"}
    [] schema = "GetFileContentsSchema" -> {"project_id", "file_path"}
    [] schema = "PushFilesSchema" -> {"project_id", "files", "commit_message", "branch"}
    [] schema = "CreateIssueSchema" -> {"project_id", "title"}
    [] schema = "CreateMergeRequestSchema" -> {"project_id", "title", "source_branch", "target_branch"}
    [] schema = "ForkRepositorySchema" -> {"project_id"}
    [] schema = "CreateBranchSchema" -> {"project_id", "branch"}
    [] schema = "ListGroupProjectsSchema" -> {"group_id"}
    [] schema = "GetProjectEventsSchema" -> {"project_id"}
    [] schema = "ListCommitsSchema" -> {"project_id"}
    [] schema = "ListIssuesSchema" -> {"project_id"}
    [] schema = "ListMergeRequestsSchema" -> {"project_id"}
    [] schema = "ListProjectWikiPagesSchema" -> {"project_id"}
    [] schema = "GetProjectWikiPageSchema" -> {"project_id", "slug"}
    [] schema = "CreateProjectWikiPageSchema" -> {"project_id", "title", "content"}
    [] schema = "EditProjectWikiPageSchema" -> {"project_id", "slug"}
    [] schema = "DeleteProjectWikiPageSchema" -> {"project_id", "slug"}
    [] schema = "UploadProjectWikiAttachmentSchema" -> {"project_id", "file_path", "content"}
    [] schema = "ListGroupWikiPagesSchema" -> {"group_id"}
    [] schema = "GetGroupWikiPageSchema" -> {"group_id", "slug"}
    [] schema = "CreateGroupWikiPageSchema" -> {"group_id", "title", "content"}
    [] schema = "EditGroupWikiPageSchema" -> {"group_id", "slug"}
    [] schema = "DeleteGroupWikiPageSchema" -> {"group_id", "slug"}
    [] schema = "UploadGroupWikiAttachmentSchema" -> {"group_id", "file_path", "content"}
    [] schema = "ListProjectMembersSchema" -> {"project_id"}
    [] schema = "ListGroupMembersSchema" -> {"group_id"}
    [] schema = "ListIssueNotesSchema" -> {"project_id", "issue_iid"}
    [] schema = "ListIssueDiscussionsSchema" -> {"project_id", "issue_iid"}
    [] schema = "ListPipelinesSchema" -> {"project_id"}
    [] schema = "GetPipelineSchema" -> {"project_id", "pipeline_id"}
    [] schema = "GetPipelineJobsSchema" -> {"project_id", "pipeline_id"}
    [] schema = "GetJobSchema" -> {"project_id", "job_id"}
    [] schema = "GetJobLogSchema" -> {"project_id", "job_id"}
    [] schema = "CreatePipelineSchema" -> {"project_id", "ref"}
    [] schema = "RetryPipelineSchema" -> {"project_id", "pipeline_id"}
    [] schema = "CancelPipelineSchema" -> {"project_id", "pipeline_id"}
    [] schema = "RetryJobSchema" -> {"project_id", "job_id"}
    [] schema = "CancelJobSchema" -> {"project_id", "job_id"}
    [] schema = "ListProjectsSchema" -> {}
    [] schema = "GetProjectSchema" -> {"project_id"}
    [] schema = "ValidateCIYamlSchema" -> {"project_id", "content"}
    [] schema = "GetProjectRunnersSchema" -> {"project_id"}
    [] schema = "ListSharedRunnersSchema" -> {}
    [] schema = "GetRunnerDetailsSchema" -> {"runner_id"}
    [] schema = "EnableProjectRunnerSchema" -> {"project_id", "runner_id"}
    [] schema = "DisableProjectRunnerSchema" -> {"project_id", "runner_id"}
    [] schema = "RegisterRunnerSchema" -> {"registration_token"}
    [] schema = "ValidateRunnerTagsSchema" -> {"project_id", "tags"}
    [] schema = "UpdateRunnerSettingsSchema" -> {"runner_id"}
    [] schema = "GetRunnerJobsSchema" -> {"runner_id"}
    [] schema = "RunnerHealthCheckSchema" -> {"runner_id"}
\* A ZodError: the list of issues, each with a path and a message; its own
\* message is the serialized list of issues.
ZodMessage(issues) ==
  "[" \o Join([i \in 1..Len(issues) |->
                 "{" \o Join(issues[i].path, ".") \o ": " \o issues[i].message \o "}"], ", ")
      \o "]"

ZodError(issues) == [zod |-> TRUE, errors |-> issues, message |-> ZodMessage(issues)]

\* new Error(message)
PlainError(message) == [zod |-> FALSE, message |-> message]

\* No exception.
NoError == [none |-> TRUE]

\* The concatenation of a sequence of sequences.
RECURSIVE Concat(_)
Concat(seqs) == IF seqs = <<>> THEN <<>> ELSE Head(seqs) \o Concat(Tail(seqs))

\* The fields of an item of the files array of push_files, both required.
ItemFields == <<"path", "content">>

\* The issues of the items of a files array: one for every field an item lacks,
\* its path the array's key, the item's index from 0 and the field.
ItemIssues(files) ==
  Concat([i \in 1..Len(files) |->
            LET missing == SelectSeq(ItemFields, LAMBDA f : f \notin DOMAIN files[i])
            IN  [k \in 1..Len(missing) |->
                   [path |-> <<"files", ToString(i - 1), missing[k]>>, message |-> "Required"]]])

\* The issues of one declared field: a required field that is missing yields
\* one issue; the files array of push_files yields the issues of its items.
FieldIssues(schema, arguments, f) ==
  IF f \notin DOMAIN arguments
  THEN IF f \in SchemaRequired(schema)
       THEN <<[path |-> <<f>>, message |-> "Required"]>>
       ELSE <<>>
  ELSE IF schema = "PushFilesSchema" /\ f = "files"
  THEN ItemIssues(arguments.files)
  ELSE <<>>

\* Schema.parse(arguments): the issues of all declared fields, in declaration
\* order (the parse does not stop at the first); on success the result keeps
\* the declared fields only.
SchemaIssues(schema, arguments) ==
  Concat([i \in 1..Len(SchemaShape(schema)) |->
            FieldIssues(schema, arguments, SchemaShape(schema)[i])])

SchemaParseOk(schema, arguments) == SchemaIssues(schema, arguments) = <<>>

SchemaParse(schema, arguments) ==
  Restrict(arguments, {SchemaShape(schema)[i] : i \in 1..Len(SchemaShape(schema))})

\* The date strings of the model; the first two are calendar date-times.
ValidDates == {"2024-01-01T00:00:00Z", "2024-01-01"}
InvalidDates == {"", "not-a-date"}
DateStrings == ValidDates \cup InvalidDates

\* isValidISODate(value) from ./utils.js
isValidISODate(value) == value \in ValidDates

\* ------------------------------------------------------------------
\* Tool catalog (src/src/index.ts:117-456)
\* ------------------------------------------------------------------

\* createJsonSchema(schema): a fixed shape whose properties are the contract's.
createJsonSchema(schema) ==
  [type |-> "object",
   properties |-> {SchemaShape(schema)[i] : i \in 1..Len(SchemaShape(schema))}]

\* One catalog entry; schema names the contract the switch parses with.
Tool(name, description, schema, readOnly) ==
  [name |-> name, description |-> description,
   inputSchema |-> createJsonSchema(schema), readOnly |-> readOnly]

ALL_TOOLS ==
  <<
    Tool("create_or_update_file",
         "Create or update a single file in a GitLab project",
         "CreateOrUpdateFileSchema", FALSE),
    Tool("search_repositories",
         "Search for GitLab projects",
         "SearchRepositoriesSchema", TRUE),
    Tool("create_repository",
         "Create a new GitLab project",
         "CreateRepositorySchema", FALSE),
    Tool("get_file_contents",
         "Get the contents of a file or directory from a GitLab project",
         "GetFileContentsSchema", TRUE),
    Tool("push_files",
         "Push multiple files to a GitLab project in a single commit",
         "PushFilesSchema", FALSE),
    Tool("create_issue",
         "Create a new issue in a GitLab project",
         "CreateIssueSchema", FALSE),
    Tool("create_merge_request",
         "Create a new merge request in a GitLab project",
         "CreateMergeRequestSchema", FALSE),
    Tool("fork_repository",
         "Fork a GitLab project to your account or specified namespace",
         "ForkRepositorySchema", FALSE),
    Tool("create_branch",
         "Create a new branch in a GitLab project",
         "CreateBranchSchema", FALSE),
    Tool("list_group_projects",
         "List all projects (repositories) within a specific GitLab group",
         "ListGroupProjectsSchema", TRUE),
    Tool("get_project_events",
         "Get recent events/activities for a GitLab project",
         "GetProjectEventsSchema", TRUE),
    Tool("list_commits",
         "Get commit history for a GitLab project",
         "ListCommitsSchema", TRUE),
    Tool("list_issues",
         "Get issues for a GitLab project",
         "ListIssuesSchema", TRUE),
    Tool("list_merge_requests",
         "Get merge requests for a GitLab project",
         "ListMergeRequestsSchema", TRUE),
    Tool("list_project_wiki_pages",
         "List all wiki pages for a GitLab project",
         "ListProjectWikiPagesSchema", TRUE),
    Tool("get_project_wiki_page",
         "Get a specific wiki page for a GitLab project",
         "GetProjectWikiPageSchema", TRUE),
    Tool("create_project_wiki_page",
         "Create a new wiki page for a GitLab project",
         "CreateProjectWikiPageSchema", FALSE),
    Tool("edit_project_wiki_page",
         "Edit an existing wiki page for a GitLab project",
         "EditProjectWikiPageSchema", FALSE),
    Tool("delete_project_wiki_page",
         "Delete a wiki page from a GitLab project",
         "DeleteProjectWikiPageSchema", FALSE),
    Tool("upload_project_wiki_attachment",
         "Upload an attachment to a GitLab project wiki",
         "UploadProjectWikiAttachmentSchema", FALSE),
    Tool("list_group_wiki_pages",
         "List all wiki pages for a GitLab group",
         "ListGroupWikiPagesSchema", TRUE),
    Tool("get_group_wiki_page",
         "Get a specific wiki page for a GitLab group",
         "GetGroupWikiPageSchema", TRUE),
    Tool("create_group_wiki_page",
         "Create a new wiki page for a GitLab group",
         "CreateGroupWikiPageSchema", FALSE),
    Tool("edit_group_wiki_page",
         "Edit an existing wiki page for a GitLab group",
         "EditGroupWikiPageSchema", FALSE),
    Tool("delete_group_wiki_page",
         "Delete a wiki page from a GitLab group",
         "DeleteGroupWikiPageSchema", FALSE),
    Tool("upload_group_wiki_attachment",
         "Upload an attachment to a GitLab group wiki",
         "UploadGroupWikiAttachmentSchema", FALSE),
    Tool("list_project_members",
         "List all members of a GitLab project (including inherited members)",
         "ListProjectMembersSchema", TRUE),
    Tool("list_group_members",
         "List all members of a GitLab group (including inherited members)",
         "ListGroupMembersSchema", TRUE),
    Tool("list_issue_notes",
         "Fetch all comments and system notes for a GitLab issue",
         "ListIssueNotesSchema", TRUE),
    Tool("list_issue_discussions",
         "Fetch all discussions (threaded comments) for a GitLab issue",
         "ListIssueDiscussionsSchema", TRUE),
    Tool("list_pipelines",
         "List pipelines for a GitLab project",
         "ListPipelinesSchema", TRUE),
    Tool("get_pipeline",
         "Get details of a specific pipeline",
         "GetPipelineSchema", TRUE),
    Tool("get_pipeline_jobs",
         "List jobs in a specific pipeline",
         "GetPipelineJobsSchema", TRUE),
    Tool("get_job",
         "Get details of a specific job",
         "GetJobSchema", TRUE),
    Tool("get_job_log",
         "Get job execution log/trace",
         "GetJobLogSchema", TRUE),
    Tool("create_pipeline",
         "Create a new pipeline",
         "CreatePipelineSchema", FALSE),
    Tool("retry_pipeline",
         "Retry a failed pipeline",
         "RetryPipelineSchema", FALSE),
    Tool("cancel_pipeline",
         "Cancel a running pipeline",
         "CancelPipelineSchema", FALSE),
    Tool("retry_job",
         "Retry a specific job",
         "RetryJobSchema", FALSE),
    Tool("cancel_job",
         "Cancel a running job",
         "CancelJobSchema", FALSE),
    Tool("list_projects",
         "List GitLab projects",
         "ListProjectsSchema", TRUE),
    Tool("get_project",
         "Get project details",
         "GetProjectSchema", TRUE),
    Tool("validate_ci_yaml",
         "Validate GitLab CI YAML configuration using GitLab's lint API",
         "ValidateCIYamlSchema", TRUE),
    Tool("get_project_runners",
         "Get all runners available for a specific project",
         "GetProjectRunnersSchema", TRUE),
    Tool("list_shared_runners",
         "List all shared runners available in the GitLab instance",
         "ListSharedRunnersSchema", TRUE),
    Tool("get_runner_details",
         "Get detailed information about a specific runner",
         "GetRunnerDetailsSchema", TRUE),
    Tool("enable_project_runner",
         "Enable a specific runner for a project",
         "EnableProjectRunnerSchema", FALSE),
    Tool("disable_project_runner",
         "Disable a specific runner for a project",
         "DisableProjectRunnerSchema", FALSE),
    Tool("register_runner",
         "Register a new runner with GitLab",
         "RegisterRunnerSchema", FALSE),
    Tool("validate_runner_tags",
         "Validate runner tags and check available tags for a project",
         "ValidateRunnerTagsSchema", TRUE),
    Tool("update_runner_settings",
         "Update settings and configuration for a specific runner",
         "UpdateRunnerSettingsSchema", FALSE),
    Tool("get_runner_jobs",
         "Get job history and execution details for a specific runner",
         "GetRunnerJobsSchema", TRUE),
    Tool("runner_health_check",
         "Perform health check and status verification for a runner",
         "RunnerHealthCheckSchema", TRUE)
  >>
\* tool names, in catalog order
ToolNames == {ALL_TOOLS[i].name : i \in 1..Len(ALL_TOOLS)}

\* ALL_TOOLS.find(t => t.name === name): the first entry of that name, or undefined.
FindTool(name) ==
  LET idx == {i \in 1..Len(ALL_TOOLS) : ALL_TOOLS[i].name = name}
  IN  IF idx = {} THEN Undefined
      ELSE ALL_TOOLS[CHOOSE i \in idx : \A j \in idx : i <= j]

\* The list handler without its filter.
ListToolsResult_NoFilter(readOnlyMode) ==
  [tools |-> [i \in 1..Len(ALL_TOOLS) |->
                [name |-> ALL_TOOLS[i].name,
                 description |-> ALL_TOOLS[i].description,
                 inputSchema |-> ALL_TOOLS[i].inputSchema]]]

\* What the list handler returns under a given value of the read-only flag:
\* filter(tool => tool.readOnly) when set, then the map to the three fields.
ListToolsResult(readOnlyMode) ==
  LET visible == IF readOnlyMode
                 THEN SelectSeq(ALL_TOOLS, LAMBDA tool : tool.readOnly)
                 ELSE ALL_TOOLS
  IN  [tools |-> [i \in 1..Len(visible) |->
                    [name |-> visible[i].name,
                     description |-> visible[i].description,
                     inputSchema |-> visible[i].inputSchema]]]

\* ------------------------------------------------------------------
\* The call handler (src/src/index.ts:474-1070)
\* ------------------------------------------------------------------

\* The case labels of the switch, in source order.
SwitchCases ==
  <<
    "fork_repository", "create_branch", "search_repositories",
    "create_repository", "get_file_contents", "create_or_update_file",
    "push_files", "create_issue", "create_merge_request",
    "list_group_projects", "get_project_events", "list_commits",
    "list_issues", "list_merge_requests", "list_project_wiki_pages",
    "get_project_wiki_page", "create_project_wiki_page", "edit_project_wiki_page",
    "delete_project_wiki_page", "upload_project_wiki_attachment", "list_group_wiki_pages",
    "get_group_wiki_page", "create_group_wiki_page", "edit_group_wiki_page",
    "delete_group_wiki_page", "upload_group_wiki_attachment", "list_project_members",
    "list_group_members", "list_issue_notes", "list_issue_discussions",
    "list_pipelines", "get_pipeline", "get_pipeline_jobs",
    "get_job", "get_job_log", "create_pipeline",
    "retry_pipeline", "cancel_pipeline", "retry_job",
    "cancel_job", "list_projects", "get_project",
    "validate_ci_yaml", "get_project_runners", "list_shared_runners",
    "get_runner_details", "enable_project_runner", "disable_project_runner",
    "register_runner", "validate_runner_tags", "update_runner_settings",
    "get_runner_jobs", "runner_health_check"
  >>

\* The switch without its last case.
CaseLabels_DropLast == {SwitchCases[i] : i \in 1..(Len(SwitchCases) - 1)}

CaseLabels == {SwitchCases[i] : i \in 1..Len(SwitchCases)}

\* The contract each case parses request.params.arguments with.
CaseSchema(name) ==
  CASE name = "fork_repository" -> "ForkRepositorySchema"
    [] name = "create_branch" -> "CreateBranchSchema"
    [] name = "search_repositories" -> "SearchRepositoriesSchema"
    [] name = "create_repository" -> "CreateRepositorySchema"
    [] name = "get_file_contents" -> "GetFileContentsSchema"
    [] name = "create_or_update_file" -> "CreateOrUpdateFileSchema"
    [] name = "push_files" -> "PushFilesSchema"
    [] name = "create_issue" -> "CreateIssueSchema"
    [] name = "create_merge_request" -> "CreateMergeRequestSchema"
    [] name = "list_group_projects" -> "ListGroupProjectsSchema"
    [] name = "get_project_events" -> "GetProjectEventsSchema"
    [] name = "list_commits" -> "ListCommitsSchema"
    [] name = "list_issues" -> "ListIssuesSchema"
    [] name = "list_merge_requests" -> "ListMergeRequestsSchema"
    [] name = "list_project_wiki_pages" -> "ListProjectWikiPagesSchema"
    [] name = "get_project_wiki_page" -> "GetProjectWikiPageSchema"
    [] name = "create_project_wiki_page" -> "CreateProjectWikiPageSchema"
    [] name = "edit_project_wiki_page" -> "EditProjectWikiPageSchema"
    [] name = "delete_project_wiki_page" -> "DeleteProjectWikiPageSchema"
    [] name = "upload_project_wiki_attachment" -> "UploadProjectWikiAttachmentSchema"
    [] name = "list_group_wiki_pages" -> "ListGroupWikiPagesSchema"
    [] name = "get_group_wiki_page" -> "GetGroupWikiPageSchema"
    [] name = "create_group_wiki_page" -> "CreateGroupWikiPageSchema"
    [] name = "edit_group_wiki_page" -> "EditGroupWikiPageSchema"
    [] name = "delete_group_wiki_page" -> "DeleteGroupWikiPageSchema"
    [] name = "upload_group_wiki_attachment" -> "UploadGroupWikiAttachmentSchema"
    [] name = "list_project_members" -> "ListProjectMembersSchema"
    [] name = "list_group_members" -> "ListGroupMembersSchema"
    [] name = "list_issue_notes" -> "ListIssueNotesSchema"
    [] name = "list_issue_discussions" -> "ListIssueDiscussionsSchema"
    [] name = "list_pipelines" -> "ListPipelinesSchema"
    [] name = "get_pipeline" -> "GetPipelineSchema"
    [] name = "get_pipeline_jobs" -> "GetPipelineJobsSchema"
    [] name = "get_job" -> "GetJobSchema"
    [] name = "get_job_log" -> "GetJobLogSchema"
    [] name = "create_pipeline" -> "CreatePipelineSchema"
    [] name = "retry_pipeline" -> "RetryPipelineSchema"
    [] name = "cancel_pipeline" -> "CancelPipelineSchema"
    [] name = "retry_job" -> "RetryJobSchema"
    [] name = "cancel_job" -> "CancelJobSchema"
    [] name = "list_projects" -> "ListProjectsSchema"
    [] name = "get_project" -> "GetProjectSchema"
    [] name = "validate_ci_yaml" -> "ValidateCIYamlSchema"
    [] name = "get_project_runners" -> "GetProjectRunnersSchema"
    [] name = "list_shared_runners" -> "ListSharedRunnersSchema"
    [] name = "get_runner_details" -> "GetRunnerDetailsSchema"
    [] name = "enable_project_runner" -> "EnableProjectRunnerSchema"
    [] name = "disable_project_runner" -> "DisableProjectRunnerSchema"
    [] name = "register_runner" -> "RegisterRunnerSchema"
    [] name = "validate_runner_tags" -> "ValidateRunnerTagsSchema"
    [] name = "update_runner_settings" -> "UpdateRunnerSettingsSchema"
    [] name = "get_runner_jobs" -> "GetRunnerJobsSchema"
    [] name = "runner_health_check" -> "RunnerHealthCheckSchema"

\* The gitlabApi method a case calls last (the only one, but for create_branch).
CaseMethod(name) ==
  CASE name = "fork_repository" -> "forkProject"
    [] name = "create_branch" -> "createBranch"
    [] name = "search_repositories" -> "searchProjects"
    [] name = "create_repository" -> "createRepository"
    [] name = "get_file_contents" -> "getFileContents"
    [] name = "create_or_update_file" -> "createOrUpdateFile"
    [] name = "push_files" -> "createOrUpdateFile"
    [] name = "create_issue" -> "createIssue"
    [] name = "create_merge_request" -> "createMergeRequest"
    [] name = "list_group_projects" -> "listGroupProjects"
    [] name = "get_project_events" -> "getProjectEvents"
    [] name = "list_commits" -> "listCommits"
    [] name = "list_issues" -> "listIssues"
    [] name = "list_merge_requests" -> "listMergeRequests"
    [] name = "list_project_wiki_pages" -> "listProjectWikiPages"
    [] name = "get_project_wiki_page" -> "getProjectWikiPage"
    [] name = "create_project_wiki_page" -> "createProjectWikiPage"
    [] name = "edit_project_wiki_page" -> "editProjectWikiPage"
    [] name = "delete_project_wiki_page" -> "deleteProjectWikiPage"
    [] name = "upload_project_wiki_attachment" -> "uploadProjectWikiAttachment"
    [] name = "list_group_wiki_pages" -> "listGroupWikiPages"
    [] name = "get_group_wiki_page" -> "getGroupWikiPage"
    [] name = "create_group_wiki_page" -> "createGroupWikiPage"
    [] name = "edit_group_wiki_page" -> "editGroupWikiPage"
    [] name = "delete_group_wiki_page" -> "deleteGroupWikiPage"
    [] name = "upload_group_wiki_attachment" -> "uploadGroupWikiAttachment"
    [] name = "list_project_members" -> "listProjectMembers"
    [] name = "list_group_members" -> "listGroupMembers"
    [] name = "list_issue_notes" -> "getIssueNotes"
    [] name = "list_issue_discussions" -> "getIssueDiscussions"
    [] name = "list_pipelines" -> "listPipelines"
    [] name = "get_pipeline" -> "getPipeline"
    [] name = "get_pipeline_jobs" -> "getPipelineJobs"
    [] name = "get_job" -> "getJob"
    [] name = "get_job_log" -> "getJobLog"
    [] name = "create_pipeline" -> "createPipeline"
    [] name = "retry_pipeline" -> "retryPipeline"
    [] name = "cancel_pipeline" -> "cancelPipeline"
    [] name = "retry_job" -> "retryJob"
    [] name = "cancel_job" -> "cancelJob"
    [] name = "list_projects" -> "listProjects"
    [] name = "get_project" -> "getProject"
    [] name = "validate_ci_yaml" -> "validateCIYaml"
    [] name = "get_project_runners" -> "getProjectRunners"
    [] name = "list_shared_runners" -> "listSharedRunners"
    [] name = "get_runner_details" -> "getRunnerDetails"
    [] name = "enable_project_runner" -> "enable_project_runner"
    [] name = "disable_project_runner" -> "disable_project_runner"
    [] name = "register_runner" -> "register_runner"
    [] name = "validate_runner_tags" -> "validate_runner_tags"
    [] name = "update_runner_settings" -> "update_runner_settings"
    [] name = "get_runner_jobs" -> "get_runner_jobs"
    [] name = "runner_health_check" -> "runner_health_check"

\* How a case builds its return value: "json" is JSON.stringify(result, null, 2)
\* in one text block, "raw" the result itself as the text, "fixed" a fixed
\* sentence, and any other value names the formatter the case delegates to.
CaseResponse(name) ==
  CASE name = "fork_repository" -> "json"
    [] name = "create_branch" -> "json"
    [] name = "search_repositories" -> "json"
    [] name = "create_repository" -> "json"
    [] name = "get_file_contents" -> "json"
    [] name = "create_or_update_file" -> "json"
    [] name = "push_files" -> "json"
    [] name = "create_issue" -> "json"
    [] name = "create_merge_request" -> "json"
    [] name = "list_group_projects" -> "json"
    [] name = "get_project_events" -> "formatEventsResponse"
    [] name = "list_commits" -> "formatCommitsResponse"
    [] name = "list_issues" -> "formatIssuesResponse"
    [] name = "list_merge_requests" -> "formatMergeRequestsResponse"
    [] name = "list_project_wiki_pages" -> "formatWikiPagesResponse"
    [] name = "get_project_wiki_page" -> "formatWikiPageResponse"
    [] name = "create_project_wiki_page" -> "formatWikiPageResponse"
    [] name = "edit_project_wiki_page" -> "formatWikiPageResponse"
    [] name = "delete_project_wiki_page" -> "fixed"
    [] name = "upload_project_wiki_attachment" -> "formatWikiAttachmentResponse"
    [] name = "list_group_wiki_pages" -> "formatWikiPagesResponse"
    [] name = "get_group_wiki_page" -> "formatWikiPageResponse"
    [] name = "create_group_wiki_page" -> "formatWikiPageResponse"
    [] name = "edit_group_wiki_page" -> "formatWikiPageResponse"
    [] name = "delete_group_wiki_page" -> "fixed"
    [] name = "upload_group_wiki_attachment" -> "formatWikiAttachmentResponse"
    [] name = "list_project_members" -> "formatMembersResponse"
    [] name = "list_group_members" -> "formatMembersResponse"
    [] name = "list_issue_notes" -> "formatNotesResponse"
    [] name = "list_issue_discussions" -> "formatDiscussionsResponse"
    [] name = "list_pipelines" -> "json"
    [] name = "get_pipeline" -> "json"
    [] name = "get_pipeline_jobs" -> "json"
    [] name = "get_job" -> "json"
    [] name = "get_job_log" -> "raw"
    [] name = "create_pipeline" -> "json"
    [] name = "retry_pipeline" -> "json"
    [] name = "cancel_pipeline" -> "json"
    [] name = "retry_job" -> "json"
    [] name = "cancel_job" -> "json"
    [] name = "list_projects" -> "json"
    [] name = "get_project" -> "json"
    [] name = "validate_ci_yaml" -> "json"
    [] name = "get_project_runners" -> "json"
    [] name = "list_shared_runners" -> "json"
    [] name = "get_runner_details" -> "json"
    [] name = "enable_project_runner" -> "json"
    [] name = "disable_project_runner" -> "fixed"
    [] name = "register_runner" -> "json"
    [] name = "validate_runner_tags" -> "json"
    [] name = "update_runner_settings" -> "json"
    [] name = "get_runner_jobs" -> "json"
    [] name = "runner_health_check" -> "json"
\* The handler without the missing-arguments check.
ArgumentsCheck_None(arguments) == NoError

\* if (!request.params.arguments) throw new Error("Arguments are required")
ArgumentsCheck(arguments) ==
  IF arguments = Undefined THEN PlainError("Arguments are required") ELSE NoError

\* The gate refusing only what the catalog does not know.
ReadOnlyGate_UnknownOnly(readOnlyMode, name) ==
  IF readOnlyMode /\ FindTool(name) = Undefined
  THEN PlainError("Tool '" \o name \o "' is not available in read-only mode")
  ELSE NoError

\* The gate refusing only what the catalog knows as mutating.
ReadOnlyGate_RegisteredOnly(readOnlyMode, name) ==
  IF readOnlyMode /\ FindTool(name) # Undefined /\ ~FindTool(name).readOnly
  THEN PlainError("Tool '" \o name \o "' is not available in read-only mode")
  ELSE NoError

\* The gate refusing every name under the flag.
ReadOnlyGate_DenyAll(readOnlyMode, name) ==
  IF readOnlyMode
  THEN PlainError("Tool '" \o name \o "' is not available in read-only mode")
  ELSE NoError

\* The handler without the gate.
ReadOnlyGate_Off(readOnlyMode, name) == NoError

\* The gate refusing the readOnly entries instead of the others.
ReadOnlyGate_Inverted(readOnlyMode, name) ==
  IF readOnlyMode /\ FindTool(name) # Undefined /\ FindTool(name).readOnly
  THEN PlainError("Tool '" \o name \o "' is not available in read-only mode")
  ELSE NoError

\* The read-only gate: under the flag, a name that is not in the catalog or
\* whose entry is not readOnly is refused.
ReadOnlyGate(readOnlyMode, name) ==
  IF readOnlyMode
     /\ (FindTool(name) = Undefined \/ ~FindTool(name).readOnly)
  THEN PlainError("Tool '" \o name \o "' is not available in read-only mode")
  ELSE NoError

\* The cases with the inline pagination checks.
PaginationCases ==
  {"get_project_events", "list_commits", "list_issues", "list_merge_requests",
   "list_issue_notes", "list_issue_discussions"}

\* The program's limits on per_page and page.
MinPerPage == 1
MaxPerPage == 100
MinPage == 1

\* args.per_page && (args.per_page < 1 || args.per_page > 100): an absent
\* per_page is undefined and a per_page of 0 is falsy, so neither reaches the
\* comparison.
PerPageRejected(args) ==
  /\ "per_page" \in DOMAIN args
  /\ args.per_page # 0
  /\ (args.per_page < MinPerPage \/ args.per_page > MaxPerPage)

\* args.page && args.page < 1
PageRejected(args) ==
  /\ "page" \in DOMAIN args
  /\ args.page # 0
  /\ args.page < MinPage

DateMessage(field) == field \o " must be a valid ISO 8601 date (YYYY-MM-DDTHH:MM:SSZ)"

\* list_commits: args.since && !isValidISODate(args.since), the same for until;
\* the empty string is falsy.
TruthyDateRejected(args, field) ==
  /\ field \in DOMAIN args
  /\ args[field] # ""
  /\ ~isValidISODate(args[field])

\* list_issues, list_merge_requests:
\* typeof value === 'string' && !isValidISODate(value)
StringDateRejected(args, field) ==
  /\ field \in DOMAIN args
  /\ ~isValidISODate(args[field])

CommitDateFields == <<"since", "until">>
dateFields == <<"created_after", "created_before", "updated_after", "updated_before">>

\* The first of fields, in order, that is among the refused ones; "" when none is.
FirstRejected(fields, refused) ==
  LET idx == {i \in 1..Len(fields) : fields[i] \in refused}
  IN  IF idx = {} THEN "" ELSE fields[CHOOSE i \in idx : \A j \in idx : i <= j]

\* The date checks of a case: the error of the first refused field (list_commits
\* checks since then until; the forEach of the other two throws at the first
\* refused field of dateFields).
DateCheck(name, args) ==
  LET bad == IF name = "list_commits"
             THEN FirstRejected(CommitDateFields,
                                {f \in {"since", "until"} : TruthyDateRejected(args, f)})
             ELSE IF name \in {"list_issues", "list_merge_requests"}
             THEN FirstRejected(dateFields,
                                {f \in {"created_after", "created_before",
                                        "updated_after", "updated_before"} :
                                   StringDateRejected(args, f)})
             ELSE ""
  IN  IF bad = "" THEN NoError ELSE PlainError(DateMessage(bad))

\* The checks a case makes between its parse and its backend call, in source
\* order: per_page, page, then the dates.
InlineChecks(name, args) ==
  IF name \in PaginationCases /\ PerPageRejected(args)
  THEN PlainError("per_page must be between 1 and 100")
  ELSE IF name \in PaginationCases /\ PageRejected(args)
  THEN PlainError("page must be greater than 0")
  ELSE DateCheck(name, args)

\* The handler without the inline checks.
PreDispatch_NoInlineChecks(readOnlyMode, name, arguments) ==
  IF ArgumentsCheck(arguments) # NoError THEN ArgumentsCheck(arguments)
  ELSE IF ReadOnlyGate(readOnlyMode, name) # NoError THEN ReadOnlyGate(readOnlyMode, name)
  ELSE IF name \notin CaseLabels THEN PlainError("Unknown tool: " \o name)
  ELSE IF ~SchemaParseOk(CaseSchema(name), arguments)
  THEN ZodError(SchemaIssues(CaseSchema(name), arguments))
  ELSE NoError

\* The handler with the read-only gate ahead of the missing-arguments check.
PreDispatch_GateFirst(readOnlyMode, name, arguments) ==
  IF ReadOnlyGate(readOnlyMode, name) # NoError THEN ReadOnlyGate(readOnlyMode, name)
  ELSE IF ArgumentsCheck(arguments) # NoError THEN ArgumentsCheck(arguments)
  ELSE IF name \notin CaseLabels THEN PlainError("Unknown tool: " \o name)
  ELSE IF ~SchemaParseOk(CaseSchema(name), arguments)
  THEN ZodError(SchemaIssues(CaseSchema(name), arguments))
  ELSE InlineChecks(name, SchemaParse(CaseSchema(name), arguments))

\* Everything the handler does before its first await: the exception it
\* throws, or NoError when it goes on to the backend.
PreDispatch(readOnlyMode, name, arguments) ==
  IF ArgumentsCheck(arguments) # NoError THEN ArgumentsCheck(arguments)
  ELSE IF ReadOnlyGate(readOnlyMode, name) # NoError THEN ReadOnlyGate(readOnlyMode, name)
  ELSE IF name \notin CaseLabels THEN PlainError("Unknown tool: " \o name)
  ELSE IF ~SchemaParseOk(CaseSchema(name), arguments)
  THEN ZodError(SchemaIssues(CaseSchema(name), arguments))
  ELSE InlineChecks(name, SchemaParse(CaseSchema(name), arguments))

\* The catch block: a ZodError becomes one Error whose message lists every
\* issue as "<path>: <message>" joined by ", "; any other error is rethrown.
IssueText(e) == Join(e.path, ".") \o ": " \o e.message

\* The catch block reporting the first issue only.
Catch_FirstOnly(error) ==
  IF error.zod
  THEN PlainError("Invalid arguments: " \o IssueText(error.errors[1]))
  ELSE error

Catch(error) ==
  IF error.zod
  THEN PlainError("Invalid arguments: "
                  \o Join([i \in 1..Len(error.errors) |-> IssueText(error.errors[i])], ", "))
  ELSE error

\* Number(value); the identifiers of the model are numbers already.
Number(value) == value

\* The parameters a case hands to its gitlabApi method: params are the plain
\* parameters, options the options object (an empty record when the method
\* takes none).
Params(args, fields) == [params |-> Restrict(args, fields), options |-> <<>>]

ParamsOptions(args, fields, optionFields) ==
  [params |-> Restrict(args, fields), options |-> Restrict(args, optionFields)]

\* The split adding a default page size to the options.
Split_WithDefault(args, id) ==
  ParamsOptions(Overlay([per_page |-> 20], args), {id},
                (DOMAIN args \cup {"per_page"}) \ {id})

\* const { id, ...options } = args
Split(args, id) == ParamsOptions(args, {id}, DOMAIN args \ {id})

NumberId(args, id) ==
  [params |-> [k \in DOMAIN args \cap {"project_id", id} |->
                 IF k = id THEN Number(args[k]) ELSE args[k]],
   options |-> <<>>]

WikiPageFields == {"title", "content", "format"}
WikiAttachmentFields == {"file_path", "content", "branch"}

Forward(name, args) ==
  CASE name = "fork_repository" -> Params(args, {"project_id", "namespace"})
    [] name = "search_repositories" -> Params(args, {"search", "page", "per_page"})
    [] name = "create_repository" -> ParamsOptions(args, {}, DOMAIN args)
    [] name = "get_file_contents" -> Params(args, {"project_id", "file_path", "ref"})
    [] name = "create_or_update_file" ->
         Params(args, {"project_id", "file_path", "content", "commit_message",
                       "branch", "previous_path"})
    [] name \in {"create_issue", "create_merge_request", "get_project_events",
                 "list_commits", "list_issues", "list_merge_requests",
                 "list_project_members", "list_pipelines", "get_project_runners"} ->
         Split(args, "project_id")
    [] name \in {"list_group_projects", "list_group_members"} -> Split(args, "group_id")
    [] name \in {"update_runner_settings", "get_runner_jobs"} -> Split(args, "runner_id")
    [] name = "list_project_wiki_pages" ->
         ParamsOptions(args, {"project_id"}, {"with_content"})
    [] name = "list_group_wiki_pages" ->
         ParamsOptions(args, {"group_id"}, {"with_content"})
    [] name = "get_project_wiki_page" ->
         ParamsOptions(args, {"project_id", "slug"}, {"render_html", "version"})
    [] name = "get_group_wiki_page" ->
         ParamsOptions(args, {"group_id", "slug"}, {"render_html", "version"})
    [] name = "create_project_wiki_page" ->
         ParamsOptions(args, {"project_id"}, WikiPageFields)
    [] name = "create_group_wiki_page" ->
         ParamsOptions(args, {"group_id"}, WikiPageFields)
    [] name = "edit_project_wiki_page" ->
         ParamsOptions(args, {"project_id", "slug"}, WikiPageFields)
    [] name = "edit_group_wiki_page" ->
         ParamsOptions(args, {"group_id", "slug"}, WikiPageFields)
    [] name = "delete_project_wiki_page" -> Params(args, {"project_id", "slug"})
    [] name = "delete_group_wiki_page" -> Params(args, {"group_id", "slug"})
    [] name = "upload_project_wiki_attachment" ->
         ParamsOptions(args, {"project_id"}, WikiAttachmentFields)
    [] name = "upload_group_wiki_attachment" ->
         ParamsOptions(args, {"group_id"}, WikiAttachmentFields)
    [] name = "list_issue_notes" ->
         ParamsOptions(args, {"project_id", "issue_iid"},
                       {"sort", "order_by", "page", "per_page"})
    [] name = "list_issue_discussions" ->
         ParamsOptions(args, {"project_id", "issue_iid"}, {"page", "per_page"})
    [] name \in {"get_pipeline", "retry_pipeline", "cancel_pipeline"} ->
         NumberId(args, "pipeline_id")
    [] name = "get_pipeline_jobs" ->
         Overlay(NumberId(args, "pipeline_id"), [options |-> Restrict(args, {"scope"})])
    [] name \in {"get_job", "get_job_log", "retry_job", "cancel_job"} ->
         NumberId(args, "job_id")
    [] name = "create_pipeline" ->
         ParamsOptions(args, {"project_id", "ref"},
                       IF "variables" \in DOMAIN args THEN {"variables"} ELSE {})
    [] name \in {"list_projects", "list_shared_runners"} ->
         ParamsOptions(args, {}, DOMAIN args)
    [] name = "get_project" -> Params(args, {"project_id"})
    [] name = "validate_ci_yaml" ->
         Params(args, {"project_id", "content", "include_merged_yaml"})
    [] name \in {"get_runner_details", "runner_health_check"} -> Params(args, {"runner_id"})
    [] name \in {"enable_project_runner", "disable_project_runner"} ->
         Params(args, {"project_id", "runner_id"})
    [] name = "register_runner" ->
         Params(args, {"registration_token", "description", "tags"})
    [] name = "validate_runner_tags" -> Params(args, {"project_id", "tags"})

\* A backend call as the handler issues it: the gitlabApi method, what it was
\* given, whether it is still awaited, and the error it threw (if it did).
Call(method, given) ==
  [method |-> method, given |-> given, status |-> "pending", error |-> NoError]

\* push_files writing its files from the last to the first.
FileWrite_Reversed(args, i) ==
  Call("createOrUpdateFile",
       [params |-> [project_id |-> args.project_id,
                    file_path |-> args.files[Len(args.files) + 1 - i].path,
                    content |-> args.files[Len(args.files) + 1 - i].content,
                    commit_message |-> args.commit_message,
                    branch |-> args.branch],
        options |-> <<>>])

\* push_files: the write of the file at index i of args.files.
FileWrite(args, i) ==
  Call("createOrUpdateFile",
       [params |-> [project_id |-> args.project_id,
                    file_path |-> args.files[i].path,
                    content |-> args.files[i].content,
                    commit_message |-> args.commit_message,
                    branch |-> args.branch],
        options |-> <<>>])

\* create_branch: !ref holds for an absent ref and for the empty string.
RefMissing(args) == "ref" \notin DOMAIN args \/ args.ref = ""

DefaultBranchLookup(args) ==
  Call("getDefaultBranchRef", Params(args, {"project_id"}))

BranchCreation(args, ref) ==
  Call("createBranch",
       [params |-> [project_id |-> args.project_id],
        options |-> [name |-> args.branch, ref |-> ref]])

\* create_branch looking the default branch up whether or not a ref was given.
FirstCall_AlwaysLookup(name, args) ==
  IF name = "push_files" THEN FileWrite(args, 1)
  ELSE IF name = "create_branch" THEN DefaultBranchLookup(args)
  ELSE Call(CaseMethod(name), Forward(name, args))

\* The first backend call of a case once its checks have passed.
FirstCall(name, args) ==
  IF name = "push_files" THEN FileWrite(args, 1)
  ELSE IF name = "create_branch"
  THEN IF RefMissing(args) THEN DefaultBranchLookup(args)
       ELSE BranchCreation(args, args.ref)
  ELSE Call(CaseMethod(name), Forward(name, args))

\* JSON.stringify(value, null, 2)
JSONstringify(value) == [json |-> value]

\* A formatter of ./formatters.js: one text block made from the result.
FormatResponse(formatter, result) ==
  [content |-> <<[type |-> "text", text |-> [formatter |-> formatter, of |-> result]]>>]

\* A case returning no block for an empty result.
Envelope_NoBlockWhenEmpty(name, args, result) ==
  IF result = <<>> THEN [content |-> <<>>]
  ELSE [content |-> <<[type |-> "text", text |-> JSONstringify(result)]>>]

\* The envelope a case returns for a backend result.
Envelope(name, args, result) ==
  LET kind == CaseResponse(name)
  IN  IF kind = "json"
      THEN [content |-> <<[type |-> "text", text |-> JSONstringify(result)]>>]
      ELSE IF kind = "raw"
      THEN [content |-> <<[type |-> "text", text |-> result]>>]
      ELSE IF kind = "fixed"
      THEN [content |-> <<[type |-> "text",
                           text |-> IF name = "disable_project_runner"
                                    THEN "Runner " \o ToString(args.runner_id)
                                         \o " has been disabled for project "
                                         \o args.project_id
                                    ELSE "Wiki page '" \o args.slug
                                         \o "' has been deleted."]>>]
      ELSE FormatResponse(kind, result)

\* ------------------------------------------------------------------
\* The backend (./gitlab-api.js), as the handler sees it
\* ------------------------------------------------------------------

DefaultBranch == "main"

\* What a gitlabApi method resolves to.
BackendResult(call) ==
  IF call.method = "getDefaultBranchRef" THEN DefaultBranch
  ELSE IF call.method = "getJobLog" THEN "job log"
  ELSE IF call.method = "createOrUpdateFile"
  THEN [file_path |-> call.given.params.file_path, branch |-> call.given.params.branch]
  ELSE [from |-> call.method]

\* What a gitlabApi method can reject with: an HTTP failure, or the ZodError
\* of a response that does not match the method's response schema.
BackendErrors ==
  {PlainError("Unauthorized"),
   ZodError(<<[path |-> <<"status">>, message |-> "Invalid enum value"]>>)}

\* ------------------------------------------------------------------
\* Requests
\* ------------------------------------------------------------------

\* The longest files array of a push_files request.
MaxFiles == 3

\* The largest page of a request.
MaxPage == 2

FileSeq(n) == [i \in 1..n |-> [path |-> "file" \o ToString(i), content |-> "text"]]

\* An arguments object that satisfies every contract.
Base ==
  [project_id |-> "123", group_id |-> "group", runner_id |-> 1,
   file_path |-> "README.md", content |-> "text", commit_message |-> "commit",
   branch |-> "feature", files |-> FileSeq(MaxFiles), title |-> "title",
   source_branch |-> "feature", target_branch |-> "main", slug |-> "home",
   issue_iid |-> 1, pipeline_id |-> 12, job_id |-> 34, ref |-> "main",
   registration_token |-> "token", tags |-> <<"docker">>, search |-> "query",
   name |-> "project"]

PageValues == -1..MaxPage
PerPageValues == {-1, 0, MinPerPage, MaxPerPage, MaxPerPage + 1}

\* All records over a subset of fields with values in values.
Partial(fields, values) == UNION {[F -> values] : F \in SUBSET fields}

\* The field combinations laid over Base.
Overrides ==
  {Overlay(p, q) : p \in Partial({"page"}, PageValues),
                   q \in Partial({"per_page"}, PerPageValues)}
  \cup Partial({"since", "until"}, DateStrings)
  \cup Partial({"created_after", "created_before", "updated_after", "updated_before"},
               {"not-a-date", "2024-01-01T00:00:00Z"})
  \cup {[created_after |-> ""], [updated_before |-> ""]}
  \cup {Overlay(p, d) : p \in {[page |-> -1], [per_page |-> MaxPerPage + 1],
                                   [page |-> -1, per_page |-> MaxPerPage + 1]},
                        d \in {[since |-> "not-a-date"], [created_after |-> "not-a-date"]}}
  \cup {[ref |-> ""]}
  \cup {[files |-> FileSeq(n)] : n \in 0..MaxFiles}
  \cup {[files |-> <<[path |-> "file1"], [content |-> "text"]>>]}

\* The fields the case of a name reads: those of its contract (a parse drops
\* every other field of the arguments).
FieldsRead(name) ==
  IF name \in CaseLabels
  THEN {SchemaShape(CaseSchema(name))[i] : i \in 1..Len(SchemaShape(CaseSchema(name)))}
  ELSE {}

\* The arguments of the model's requests for a name: none, the empty object,
\* Base with some fields left out, and Base with fields the case reads added
\* or replaced.
RawArguments(name) ==
  {Undefined, <<>>}
  \cup {Restrict(Base, DOMAIN Base \ D) : D \in {{"project_id"}, {"ref"}, {"title", "project_id"}}}
  \cup {Overlay(Base, o) : o \in {v \in Overrides : DOMAIN v \subseteq FieldsRead(name)}}

\* The names of the model's requests: every catalog name and one that is in
\* neither the catalog nor the switch.
RequestNames == ToolNames \cup CaseLabels \cup {"no_such_tool"}

\* ------------------------------------------------------------------
\* State
\* ------------------------------------------------------------------

VARIABLES
  GITLAB_READ_ONLY_MODE,  \* the process-wide flag, read from the environment
  request,                \* the request being handled: its name and arguments
  pc,                     \* "idle", "awaiting" (a backend call), "done"
  args,                   \* the parsed arguments of the case (const args)
  ref,                    \* create_branch: let ref
  results,                \* push_files: const results = []
  calls,                  \* the backend calls the handler has issued, in order
  outcome,                \* what the handler returned or threw
  listed,                 \* the result of the latest list request
  invocations             \* the invocations in flight when requests overlap

vars ==
  <<GITLAB_READ_ONLY_MODE, request, pc, args, ref, results, calls, outcome, listed,
    invocations>>

NoRequest == [none |-> TRUE]

\* The most invocations in flight at a time, and their places.
MaxInvocations == 2
Invocations == 1..MaxInvocations

\* A place with no invocation in it.
NoInvocation == [pc |-> "idle"]
NoOutcome == [kind |-> "none"]
Returned(envelope) == [kind |-> "returned", envelope |-> envelope]
Thrown(error) == [kind |-> "thrown", message |-> error.message]

Init ==
  /\ GITLAB_READ_ONLY_MODE \in BOOLEAN
  /\ request = NoRequest
  /\ pc = "idle"
  /\ args = Undefined
  /\ ref = ""
  /\ results = <<>>
  /\ calls = <<>>
  /\ outcome = NoOutcome
  /\ listed = Undefined
  /\ invocations = [h \in Invocations |-> NoInvocation]

\* A list request that leaves the flag switched over.
ListTools_TogglesFlag ==
  /\ listed' = ListToolsResult(GITLAB_READ_ONLY_MODE)
  /\ GITLAB_READ_ONLY_MODE' = ~GITLAB_READ_ONLY_MODE
  /\ UNCHANGED <<request, pc, args, ref, results, calls, outcome, invocations>>

\* A list request arrives and is answered.
ListTools ==
  /\ listed' = ListToolsResult(GITLAB_READ_ONLY_MODE)
  /\ UNCHANGED <<GITLAB_READ_ONLY_MODE, request, pc, args, ref, results, calls, outcome, invocations>>

\* A call request arrives; the handler runs up to its first await, or to its
\* return or throw when it reaches none.
CallTool(name, arguments) ==
  /\ pc = "idle"
  /\ request' = [name |-> name, arguments |-> arguments]
  /\ ref' = ""
  /\ results' = <<>>
  /\ LET error == PreDispatch(GITLAB_READ_ONLY_MODE, name, arguments)
         parsed == SchemaParse(CaseSchema(name), arguments)
     IN  IF error # NoError
         THEN /\ outcome' = Thrown(Catch(error))
              /\ pc' = "done"
              /\ args' = Undefined
              /\ calls' = <<>>
         ELSE IF name = "push_files" /\ parsed.files = <<>>
         THEN /\ outcome' = Returned(Envelope(name, parsed, <<>>))
              /\ pc' = "done"
              /\ args' = parsed
              /\ calls' = <<>>
         ELSE /\ outcome' = NoOutcome
              /\ pc' = "awaiting"
              /\ args' = parsed
              /\ calls' = <<FirstCall(name, parsed)>>
  /\ UNCHANGED <<GITLAB_READ_ONLY_MODE, listed, invocations>>

\* push_files writing its last file once more before it returns.
BackendReturns_ExtraWrite ==
  /\ pc = "awaiting"
  /\ LET n == Len(calls)
         call == calls[n]
         result == BackendResult(call)
         settled == [calls EXCEPT ![n].status = "ok"]
         name == request.name
     IN  IF name = "create_branch" /\ call.method = "getDefaultBranchRef"
         THEN /\ ref' = result
              /\ calls' = Append(settled, BranchCreation(args, result))
              /\ UNCHANGED <<pc, results, outcome>>
         ELSE IF name = "push_files"
         THEN /\ results' = Append(results, result)
              /\ IF n < Len(args.files) + 1
                 THEN /\ calls' = Append(settled,
                                         FileWrite(args, IF n < Len(args.files) THEN n + 1 ELSE n))
                      /\ UNCHANGED <<pc, outcome>>
                 ELSE /\ calls' = settled
                      /\ pc' = "done"
                      /\ outcome' = Returned(Envelope(name, args, Append(results, result)))
              /\ UNCHANGED ref
         ELSE /\ calls' = settled
              /\ pc' = "done"
              /\ outcome' = Returned(Envelope(name, args, result))
              /\ UNCHANGED <<ref, results>>
  /\ UNCHANGED <<GITLAB_READ_ONLY_MODE, request, args, listed, invocations>>

\* push_files collecting its results from the last to the first.
BackendReturns_Prepend ==
  /\ pc = "awaiting"
  /\ LET n == Len(calls)
         call == calls[n]
         result == BackendResult(call)
         settled == [calls EXCEPT ![n].status = "ok"]
         name == request.name
     IN  IF name = "create_branch" /\ call.method = "getDefaultBranchRef"
         THEN /\ ref' = result
              /\ calls' = Append(settled, BranchCreation(args, result))
              /\ UNCHANGED <<pc, results, outcome>>
         ELSE IF name = "push_files"
         THEN /\ results' = <<result>> \o results
              /\ IF n < Len(args.files)
                 THEN /\ calls' = Append(settled, FileWrite(args, n + 1))
                      /\ UNCHANGED <<pc, outcome>>
                 ELSE /\ calls' = settled
                      /\ pc' = "done"
                      /\ outcome' = Returned(Envelope(name, args, <<result>> \o results))
              /\ UNCHANGED ref
         ELSE /\ calls' = settled
              /\ pc' = "done"
              /\ outcome' = Returned(Envelope(name, args, result))
              /\ UNCHANGED <<ref, results>>
  /\ UNCHANGED <<GITLAB_READ_ONLY_MODE, request, args, listed, invocations>>

\* The awaited backend call resolves; the handler runs on to its next await
\* or to its return.
BackendReturns ==
  /\ pc = "awaiting"
  /\ LET n == Len(calls)
         call == calls[n]
         result == BackendResult(call)
         settled == [calls EXCEPT ![n].status = "ok"]
         name == request.name
     IN  IF name = "create_branch" /\ call.method = "getDefaultBranchRef"
         THEN /\ ref' = result
              /\ calls' = Append(settled, BranchCreation(args, result))
              /\ UNCHANGED <<pc, results, outcome>>
         ELSE IF name = "push_files"
         THEN /\ results' = Append(results, result)
              /\ IF n < Len(args.files)
                 THEN /\ calls' = Append(settled, FileWrite(args, n + 1))
                      /\ UNCHANGED <<pc, outcome>>
                 ELSE /\ calls' = settled
                      /\ pc' = "done"
                      /\ outcome' = Returned(Envelope(name, args, Append(results, result)))
              /\ UNCHANGED ref
         ELSE /\ calls' = settled
              /\ pc' = "done"
              /\ outcome' = Returned(Envelope(name, args, result))
              /\ UNCHANGED <<ref, results>>
  /\ UNCHANGED <<GITLAB_READ_ONLY_MODE, request, args, listed, invocations>>

\* push_files swallowing a failed write and going on with the next file.
BackendThrows_Continue(error) ==
  /\ pc = "awaiting"
  /\ LET n == Len(calls)
         failed == [calls EXCEPT ![n].status = "failed", ![n].error = error]
     IN  IF request.name = "push_files" /\ n < Len(args.files)
         THEN /\ calls' = Append(failed, FileWrite(args, n + 1))
              /\ UNCHANGED <<pc, outcome>>
         ELSE /\ calls' = failed
              /\ outcome' = Thrown(Catch(error))
              /\ pc' = "done"
  /\ UNCHANGED <<GITLAB_READ_ONLY_MODE, request, args, ref, results, listed, invocations>>

\* The handler trying a failed call once more.
BackendThrows_Retry(error) ==
  /\ pc = "awaiting"
  /\ LET n == Len(calls)
         failed == [calls EXCEPT ![n].status = "failed", ![n].error = error]
     IN  IF \A i \in 1..(n - 1) : calls[i].status # "failed"
         THEN /\ calls' = Append(failed, [calls[n] EXCEPT !.status = "pending"])
              /\ UNCHANGED <<pc, outcome>>
         ELSE /\ calls' = failed
              /\ outcome' = Thrown(Catch(error))
              /\ pc' = "done"
  /\ UNCHANGED <<GITLAB_READ_ONLY_MODE, request, args, ref, results, listed, invocations>>

\* push_files answering a failed write with the results collected so far.
BackendThrows_PartialEnvelope(error) ==
  /\ pc = "awaiting"
  /\ calls' = [calls EXCEPT ![Len(calls)].status = "failed", ![Len(calls)].error = error]
  /\ outcome' = IF request.name = "push_files"
                THEN Returned(Envelope(request.name, args, results))
                ELSE Thrown(Catch(error))
  /\ pc' = "done"
  /\ UNCHANGED <<GITLAB_READ_ONLY_MODE, request, args, ref, results, listed, invocations>>

\* The awaited backend call rejects; the exception leaves the case (push_files
\* rethrows it) and passes through the catch block.
BackendThrows(error) ==
  /\ pc = "awaiting"
  /\ calls' = [calls EXCEPT ![Len(calls)].status = "failed", ![Len(calls)].error = error]
  /\ outcome' = Thrown(Catch(error))
  /\ pc' = "done"
  /\ UNCHANGED <<GITLAB_READ_ONLY_MODE, request, args, ref, results, listed, invocations>>

\* The response (or the error) goes back to the caller and the request ends.
Respond ==
  /\ pc = "done"
  /\ pc' = "idle"
  /\ request' = NoRequest
  /\ args' = Undefined
  /\ ref' = ""
  /\ results' = <<>>
  /\ calls' = <<>>
  /\ outcome' = NoOutcome
  /\ UNCHANGED <<GITLAB_READ_ONLY_MODE, listed, invocations>>

Next ==
  \/ ListTools
  \/ \E name \in RequestNames : \E arguments \in RawArguments(name) : CallTool(name, arguments)
  \/ BackendReturns
  \/ \E error \in BackendErrors : BackendThrows(error)
  \/ Respond

Spec == Init /\ [][Next]_vars

\* ------------------------------------------------------------------
\* Overlapping invocations
\* ------------------------------------------------------------------

\* The locals of one run of the handler (request, const args, let ref, const
\* results), the calls it has issued and what it returned or threw, after it
\* has run up to its first await, or to its return or throw.
Start(readOnlyMode, name, arguments) ==
  LET error == PreDispatch(readOnlyMode, name, arguments)
      parsed == SchemaParse(CaseSchema(name), arguments)
      entry == [request |-> [name |-> name, arguments |-> arguments],
                ref |-> "", results |-> <<>>, calls |-> <<>>]
  IN  IF error # NoError
      THEN Overlay(entry, [pc |-> "done", args |-> Undefined,
                           outcome |-> Thrown(Catch(error))])
      ELSE IF name = "push_files" /\ parsed.files = <<>>
      THEN Overlay(entry, [pc |-> "done", args |-> parsed,
                           outcome |-> Returned(Envelope(name, parsed, <<>>))])
      ELSE Overlay(entry, [pc |-> "awaiting", args |-> parsed, outcome |-> NoOutcome,
                           calls |-> <<FirstCall(name, parsed)>>])

\* The run h after its awaited call has resolved: on to its next await or to
\* its return.
Resolve(h) ==
  LET n == Len(h.calls)
      result == BackendResult(h.calls[n])
      settled == [h.calls EXCEPT ![n].status = "ok"]
  IN  IF h.request.name = "create_branch" /\ h.calls[n].method = "getDefaultBranchRef"
      THEN [h EXCEPT !.ref = result,
                     !.calls = Append(settled, BranchCreation(h.args, result))]
      ELSE IF h.request.name = "push_files"
      THEN IF n < Len(h.args.files)
           THEN [h EXCEPT !.results = Append(h.results, result),
                          !.calls = Append(settled, FileWrite(h.args, n + 1))]
           ELSE [h EXCEPT !.results = Append(h.results, result),
                          !.calls = settled,
                          !.pc = "done",
                          !.outcome = Returned(Envelope(h.request.name, h.args,
                                                        Append(h.results, result)))]
      ELSE [h EXCEPT !.calls = settled,
                     !.pc = "done",
                     !.outcome = Returned(Envelope(h.request.name, h.args, result))]

\* The run h after its awaited call has rejected: the catch block throws.
Reject(h, error) ==
  [h EXCEPT !.calls = [h.calls EXCEPT ![Len(h.calls)].status = "failed",
                                      ![Len(h.calls)].error = error],
            !.pc = "done",
            !.outcome = Thrown(Catch(error))]

\* The requests of the overlapping invocations: a several-step one of each
\* kind, a mutating and a reading one, and one refused at each stage.
OverlapRequests ==
  {[name |-> "push_files", arguments |-> Overlay(Base, [files |-> FileSeq(2)])],
   [name |-> "create_branch", arguments |-> Restrict(Base, DOMAIN Base \ {"ref"})],
   [name |-> "get_project", arguments |-> Base],
   [name |-> "create_issue", arguments |-> Base],
   [name |-> "create_issue", arguments |-> <<>>],
   [name |-> "get_project", arguments |-> Undefined],
   [name |-> "no_such_tool", arguments |-> Base]}

\* A call request arrives while others may be in flight.
Arrives(h, name, arguments) ==
  /\ invocations[h] = NoInvocation
  /\ invocations' = [invocations EXCEPT ![h] = Start(GITLAB_READ_ONLY_MODE, name, arguments)]
  /\ UNCHANGED <<GITLAB_READ_ONLY_MODE, request, pc, args, ref, results, calls, outcome, listed>>

\* The results array of push_files kept outside the handler, one for all runs.
Resolves_SharedResults(h) ==
  /\ invocations[h].pc = "awaiting"
  /\ LET others == Concat([g \in Invocations |->
                             IF g # h /\ invocations[g] # NoInvocation
                             THEN invocations[g].results ELSE <<>>])
     IN  invocations' =
           [invocations EXCEPT ![h] = Resolve([@ EXCEPT !.results = others \o @])]
  /\ UNCHANGED <<GITLAB_READ_ONLY_MODE, request, pc, args, ref, results, calls, outcome, listed>>

\* The call awaited by the run at h resolves.
Resolves(h) ==
  /\ invocations[h].pc = "awaiting"
  /\ invocations' = [invocations EXCEPT ![h] = Resolve(@)]
  /\ UNCHANGED <<GITLAB_READ_ONLY_MODE, request, pc, args, ref, results, calls, outcome, listed>>

\* The call awaited by the run at h rejects.
Rejects(h, error) ==
  /\ invocations[h].pc = "awaiting"
  /\ invocations' = [invocations EXCEPT ![h] = Reject(@, error)]
  /\ UNCHANGED <<GITLAB_READ_ONLY_MODE, request, pc, args, ref, results, calls, outcome, listed>>

\* The run at h hands its response (or its error) to the caller and ends.
Completes(h) ==
  /\ invocations[h].pc = "done"
  /\ invocations' = [invocations EXCEPT ![h] = NoInvocation]
  /\ UNCHANGED <<GITLAB_READ_ONLY_MODE, request, pc, args, ref, results, calls, outcome, listed>>

NextOverlap ==
  \/ ListTools
  \/ \E h \in Invocations : \E r \in OverlapRequests : Arrives(h, r.name, r.arguments)
  \/ \E h \in Invocations : Resolves(h)
  \/ \E h \in Invocations : \E error \in BackendErrors : Rejects(h, error)
  \/ \E h \in Invocations : Completes(h)

\* Call requests and list requests overlapping at the awaits of the handlers.
SpecOverlap == Init /\ [][NextOverlap]_vars

\* Every awaited backend call settles: a handler that awaits a call is
\* eventually resumed with its result or its error.
FairSpec ==
  Spec /\ WF_vars(BackendReturns \/ \E error \in BackendErrors : BackendThrows(error))

\* ------------------------------------------------------------------
\* Properties
\* ------------------------------------------------------------------

\* The request being handled names a catalog entry registered with readOnly = false.
Mutating(name) == \E i \in 1..Len(ALL_TOOLS) : ALL_TOOLS[i].name = name /\ ~ALL_TOOLS[i].readOnly

Registered(name) == \E i \in 1..Len(ALL_TOOLS) : ALL_TOOLS[i].name = name

NotAvailable(name) == "Tool '" \o name \o "' is not available in read-only mode"

UnknownTool(name) == "Unknown tool: " \o name

Handling == request # NoRequest

Failed == pc = "done" /\ outcome.kind = "thrown"

\* The gitlabApi methods the cases of mutating tools call.
MutatingMethods ==
  {CaseMethod(ALL_TOOLS[i].name) : i \in {j \in 1..Len(ALL_TOOLS) : ~ALL_TOOLS[j].readOnly}}
  \cup {"getDefaultBranchRef"}

\* C1 as stated: under the read-only flag every invocation of a mutating tool
\* ends with the not-available error, whatever its arguments, and has issued no
\* backend call.
C1_DeniedWhateverArguments ==
  (Handling /\ GITLAB_READ_ONLY_MODE /\ Mutating(request.name))
    => /\ calls = <<>>
       /\ Failed
       /\ outcome.message = NotAvailable(request.name)

\* C1, amended: under the read-only flag an invocation of a mutating tool never
\* issues a backend call and always fails; with an arguments object (valid or
\* not) the error is the not-available one, without one it is "Arguments are
\* required"; and no method of a mutating tool is ever among the calls issued.
C1_ReadOnlyBlocksMutating ==
  GITLAB_READ_ONLY_MODE =>
    /\ \A i \in 1..Len(calls) : calls[i].method \notin MutatingMethods
    /\ (Handling /\ Mutating(request.name)) =>
         /\ calls = <<>>
         /\ Failed
         /\ outcome.message = IF request.arguments = Undefined
                              THEN "Arguments are required"
                              ELSE NotAvailable(request.name)

\* C1 witness: create_issue with valid arguments has been refused under the flag.
C1_Witness ==
  /\ GITLAB_READ_ONLY_MODE
  /\ Handling
  /\ request.name = "create_issue"
  /\ request.arguments = Base
  /\ Failed
  /\ outcome.message = NotAvailable("create_issue")

\* The position of a name in the catalog (0 when it has none).
CatalogIndex(name) ==
  IF Registered(name)
  THEN CHOOSE i \in 1..Len(ALL_TOOLS) : ALL_TOOLS[i].name = name
  ELSE 0

\* C2: a list request returns, in catalog order and without repetition, exactly
\* the entries with readOnly = true under the flag and every entry without it,
\* each reduced to name, description and inputSchema.
C2_ListIsVisibleCatalog ==
  listed # Undefined =>
    LET tools == listed.tools
        visible == {i \in 1..Len(ALL_TOOLS) : GITLAB_READ_ONLY_MODE => ALL_TOOLS[i].readOnly}
        at == [k \in 1..Len(tools) |-> CatalogIndex(tools[k].name)]
    IN  /\ Len(tools) = Cardinality(visible)
        /\ {at[k] : k \in 1..Len(tools)} = visible
        /\ \A k \in 1..Len(tools) :
             /\ DOMAIN tools[k] = {"name", "description", "inputSchema"}
             /\ tools[k].description = ALL_TOOLS[at[k]].description
             /\ tools[k].inputSchema = ALL_TOOLS[at[k]].inputSchema
        /\ \A k \in 1..(Len(tools) - 1) : at[k] < at[k + 1]

\* C2 witness: a list request answered under the flag with a proper part of the catalog.
C2_Witness ==
  /\ listed # Undefined
  /\ GITLAB_READ_ONLY_MODE
  /\ Len(listed.tools) > 0
  /\ Len(listed.tools) < Len(ALL_TOOLS)

\* The request's arguments pass the parse of its case and the checks after it.
ParseOk == SchemaParseOk(CaseSchema(request.name), request.arguments)

ChecksOk ==
  InlineChecks(request.name, SchemaParse(CaseSchema(request.name), request.arguments)) = NoError

\* C3: a backend call is issued only after the arguments have passed the parse
\* and then the inline checks of the case, and the case works on the parsed
\* record; a request that fails either has issued no backend call and ends in
\* an error.
C3_ValidationBeforeBackend ==
  /\ calls # <<>> =>
       /\ request.arguments # Undefined
       /\ request.name \in CaseLabels
       /\ ParseOk
       /\ ChecksOk
       /\ args = SchemaParse(CaseSchema(request.name), request.arguments)
  /\ (Handling /\ request.arguments # Undefined /\ request.name \in CaseLabels
      /\ (~ParseOk \/ ~ChecksOk)) =>
       /\ calls = <<>>
       /\ Failed

\* C3 witness: one request refused for a missing required field, with no call.
C3_Witness ==
  /\ Handling
  /\ ~GITLAB_READ_ONLY_MODE
  /\ request.name = "create_issue"
  /\ request.arguments # Undefined
  /\ "title" \notin DOMAIN request.arguments
  /\ Failed
  /\ calls = <<>>

\* The error the handler's stages give for a request, taken in the order
\* missing arguments, read-only gate, switch, parse, inline checks; "" when
\* every stage passes.
StageError(readOnlyMode, name, arguments) ==
  IF arguments = Undefined THEN "Arguments are required"
  ELSE IF readOnlyMode /\ (~Registered(name) \/ Mutating(name)) THEN NotAvailable(name)
  ELSE IF name \notin CaseLabels THEN UnknownTool(name)
  ELSE IF ~SchemaParseOk(CaseSchema(name), arguments)
  THEN Catch(ZodError(SchemaIssues(CaseSchema(name), arguments))).message
  ELSE IF InlineChecks(name, SchemaParse(CaseSchema(name), arguments)) # NoError
  THEN InlineChecks(name, SchemaParse(CaseSchema(name), arguments)).message
  ELSE ""

\* C4 as stated: the access-control check comes before the missing-arguments
\* check, so under the flag a mutating or unknown tool is refused as not
\* available also when it comes without arguments.
C4_AccessBeforeArguments ==
  (Handling /\ GITLAB_READ_ONLY_MODE /\ pc = "done"
   /\ (Mutating(request.name) \/ ~Registered(request.name))
   /\ (request.arguments = Undefined \/ ~ParseOk))
    => (outcome.kind = "thrown" /\ outcome.message = NotAvailable(request.name))

\* C4, amended: the stages run in the order missing-arguments check, read-only
\* gate, switch on the name, parse, inline checks, backend call; the error
\* surfaced is that of the first stage that fails, and a backend call is issued
\* exactly when none fails (push_files with no file has none to issue).
C4_StageOrder ==
  Handling =>
    LET expected == StageError(GITLAB_READ_ONLY_MODE, request.name, request.arguments)
    IN  /\ expected # "" =>
             /\ calls = <<>>
             /\ Failed
             /\ outcome.message = expected
        /\ expected = "" =>
             \/ calls # <<>>
             \/ request.name = "push_files" /\ args.files = <<>> /\ outcome.kind = "returned"

\* C4 witness: under the flag a mutating tool with a required field missing is
\* refused as not available, not as invalid.
C4_Witness ==
  /\ Handling
  /\ GITLAB_READ_ONLY_MODE
  /\ request.name = "create_issue"
  /\ request.arguments = <<>>
  /\ Failed
  /\ outcome.message = NotAvailable("create_issue")

\* C5 as stated: a name outside the catalog always fails with "Unknown tool",
\* whatever the arguments, and issues no backend call.
C5_AlwaysUnknownTool ==
  (Handling /\ ~Registered(request.name))
    => /\ calls = <<>>
       /\ Failed
       /\ outcome.message = UnknownTool(request.name)

\* C5, amended: a name outside the catalog always fails and issues no backend
\* call; the error is "Arguments are required" without an arguments object,
\* else the not-available error under the read-only flag, else "Unknown tool".
C5_UnregisteredAlwaysFails ==
  (Handling /\ ~Registered(request.name))
    => /\ calls = <<>>
       /\ pc = "done"
       /\ outcome.kind = "thrown"
       /\ outcome.message =
            CASE request.arguments = Undefined -> "Arguments are required"
              [] request.arguments # Undefined /\ GITLAB_READ_ONLY_MODE ->
                   NotAvailable(request.name)
              [] OTHER -> UnknownTool(request.name)

\* C5 witness: without the flag, an unregistered name with valid-looking
\* arguments has failed as an unknown tool.
C5_Witness ==
  /\ Handling
  /\ ~GITLAB_READ_ONLY_MODE
  /\ ~Registered(request.name)
  /\ request.arguments = Base
  /\ Failed
  /\ outcome.message = UnknownTool(request.name)

\* C6 as stated: the not-available error names only registered tools with
\* readOnly = false, and an unregistered name gets "Unknown tool" under the
\* flag too.
C6_NotAvailableOnlyForRegistered ==
  Failed =>
    /\ outcome.message = NotAvailable(request.name) => Mutating(request.name)
    /\ (~Registered(request.name) /\ request.arguments # Undefined)
         => outcome.message = UnknownTool(request.name)

\* C6, amended: the not-available error is given only under the read-only flag
\* and only for a name that is either a registered tool with readOnly = false
\* or not registered at all; an unregistered name with arguments gets "Unknown
\* tool" exactly when the flag is not set.
C6_NotAvailableMeaning ==
  Failed =>
    /\ outcome.message = NotAvailable(request.name) =>
         /\ GITLAB_READ_ONLY_MODE
         /\ request.arguments # Undefined
         /\ (Mutating(request.name) \/ ~Registered(request.name))
    /\ (~Registered(request.name) /\ request.arguments # Undefined) =>
         (outcome.message = UnknownTool(request.name) <=> ~GITLAB_READ_ONLY_MODE)
    /\ outcome.message = UnknownTool(request.name) =>
         (~Registered(request.name) /\ ~GITLAB_READ_ONLY_MODE)

\* C6 witness: under the flag an unregistered name has been refused as not available.
C6_Witness ==
  /\ Failed
  /\ GITLAB_READ_ONLY_MODE
  /\ ~Registered(request.name)
  /\ outcome.message = NotAvailable(request.name)

\* The request is for a case with the inline pagination checks and its
\* arguments pass the parse.
PaginationRequest ==
  /\ Handling
  /\ request.name \in PaginationCases
  /\ request.arguments # Undefined
  /\ ParseOk

Has(field) == field \in DOMAIN request.arguments

\* The options of the first backend call.
Forwarded == calls[1].given.options

\* C7 as stated: in the cases that check pagination, page = 0 is refused with
\* "page must be greater than 0" and no backend call, and page = 1 is accepted
\* and forwarded.
C7_PageZeroRejected ==
  (PaginationRequest /\ Has("page") /\ ~Has("per_page")) =>
    /\ request.arguments.page = 0 =>
         /\ calls = <<>>
         /\ Failed
         /\ outcome.message = "page must be greater than 0"
    /\ request.arguments.page = 1 =>
         /\ calls # <<>>
         /\ Forwarded.page = 1

\* C8 as stated: in the cases that check pagination, a present per_page is
\* accepted exactly when it lies in 1..100, and is otherwise refused with
\* "per_page must be between 1 and 100" and no backend call.
C8_PerPageInRange ==
  (PaginationRequest /\ Has("per_page") /\ ~Has("page")) =>
    IF request.arguments.per_page >= 1 /\ request.arguments.per_page <= 100
    THEN /\ calls # <<>>
         /\ Forwarded.per_page = request.arguments.per_page
    ELSE /\ calls = <<>>
         /\ Failed
         /\ outcome.message = "per_page must be between 1 and 100"

\* The date fields of the request that are present and hold no calendar date-time.
CheckedDateFields(name) ==
  IF name = "list_commits" THEN {"since", "until"}
  ELSE {"created_after", "created_before", "updated_after", "updated_before"}

BadDateFields ==
  {f \in CheckedDateFields(request.name) \cap DOMAIN request.arguments :
     request.arguments[f] \notin ValidDates}

\* C9 as stated: in list_commits, list_issues and list_merge_requests every
\* present date field that holds no calendar date-time makes the request fail
\* with a message starting with the name of such a field and no backend call,
\* and requests whose date fields are all well formed are accepted.
C9_BadDateRejected ==
  (Handling /\ request.name \in {"list_commits", "list_issues", "list_merge_requests"}
   /\ request.arguments # Undefined /\ ParseOk
   /\ ~Has("page") /\ ~Has("per_page")) =>
    IF BadDateFields # {}
    THEN /\ calls = <<>>
         /\ Failed
         /\ \E f \in BadDateFields : outcome.message = DateMessage(f)
    ELSE calls # <<>>

\* The calls of a push_files request are the writes of its files, in order,
\* and only the last of them can be unsettled or failed.
PushFilesCallsInOrder ==
  /\ Len(calls) <= Len(args.files)
  /\ \A i \in 1..Len(calls) :
       /\ calls[i].method = "createOrUpdateFile"
       /\ calls[i].given.params.file_path = args.files[i].path
       /\ i < Len(calls) => calls[i].status = "ok"

\* A write of the push_files request being handled has failed.
PushFilesFailed ==
  /\ Handling
  /\ request.name = "push_files"
  /\ calls # <<>>
  /\ calls[Len(calls)].status = "failed"

InFlight == {i \in 1..Len(calls) : calls[i].status = "pending"}

Validated ==
  /\ Handling
  /\ StageError(GITLAB_READ_ONLY_MODE, request.name, request.arguments) = ""

\* C12 as stated: a request other than push_files that passes validation
\* issues exactly one backend call.
C12_ExactlyOneCall ==
  (Validated /\ request.name # "push_files") => Len(calls) = 1

\* C12, amended: a request other than push_files that passes validation issues
\* exactly one backend call, the method of its case, except create_branch
\* without a (non-empty) ref, which first looks the default branch up and,
\* once that has succeeded, issues the branch creation as a second call.
C12_OneCallButCreateBranch ==
  (Validated /\ request.name # "push_files") =>
    IF request.name = "create_branch"
       /\ (~Has("ref") \/ request.arguments.ref = "")
    THEN /\ Len(calls) \in {1, 2}
         /\ calls[1].method = "getDefaultBranchRef"
         /\ Len(calls) = 2 => (calls[1].status = "ok" /\ calls[2].method = "createBranch")
         /\ (pc = "done" /\ outcome.kind = "returned") => Len(calls) = 2
         /\ ~(Len(calls) = 1 /\ calls[1].status = "ok")
    ELSE /\ Len(calls) = 1
         /\ calls[1].method = CaseMethod(request.name)

\* C12 witness: create_branch without ref has returned after two calls.
C12_Witness ==
  /\ Validated
  /\ request.name = "create_branch"
  /\ ~Has("ref")
  /\ pc = "done"
  /\ outcome.kind = "returned"
  /\ Len(calls) = 2

\* The messages the inline checks give.
CrossFieldMessages ==
  {"per_page must be between 1 and 100", "page must be greater than 0"}
  \cup {DateMessage(f) : f \in {"since", "until", "created_after", "created_before",
                                "updated_after", "updated_before"}}

\* The aggregated message for a list of issues.
InvalidArguments(issues) ==
  "Invalid arguments: "
  \o Join([i \in 1..Len(issues) |->
             Join(issues[i].path, ".") \o ": " \o issues[i].message], ", ")

\* The non-empty lists of issues that occur in the model.
IssueLists ==
  (UNION {{SchemaIssues(CaseSchema(n), a) : a \in RawArguments(n) \ {Undefined}} :
            n \in CaseLabels}
   \cup {e.errors : e \in {b \in BackendErrors : b.zod}})
  \ {<<>>}

\* A message that reports a validation failure: "Arguments are required", the
\* aggregated "Invalid arguments: ..." form, or a cross-field message.
IsValidationMessage(message) ==
  \/ message = "Arguments are required"
  \/ message \in CrossFieldMessages
  \/ \E issues \in IssueLists : message = InvalidArguments(issues)

\* The last backend call of the request has failed.
BackendFailed ==
  /\ Handling
  /\ calls # <<>>
  /\ calls[Len(calls)].status = "failed"

\* C13 as stated: a request fails with a validation error only when it has
\* issued no backend call; a failure of a backend call is never reported as a
\* validation error.
C13_ValidationErrorMeansNoCall ==
  (Handling /\ Failed /\ IsValidationMessage(outcome.message)) => calls = <<>>

\* C14 as stated: when a backend call fails, the request fails with that
\* error's own message, unchanged.
C14_BackendMessageVerbatim ==
  BackendFailed =>
    /\ Failed
    /\ outcome.message = calls[Len(calls)].error.message

\* The gitlabApi methods the case of a name may call.
MethodsOf(name) ==
  IF name = "create_branch" THEN {"getDefaultBranchRef", "createBranch"}
  ELSE {CaseMethod(name)}

\* C15: nothing is retried and nothing falls back: the calls of a request are
\* methods of its own case, no method is called twice (push_files: call i is
\* the one write of item i, so there are no more calls than items), a failed
\* call is the last call of the request and ends it, and after it no call is
\* added.
C15_NoRetryNoFallback ==
  /\ [](Handling =>
          /\ \A i \in 1..Len(calls) :
               /\ calls[i].method \in MethodsOf(request.name)
               /\ calls[i].status = "failed" => (i = Len(calls) /\ Failed)
          /\ IF request.name = "push_files"
             THEN calls # <<>> =>
                    /\ Len(calls) <= Len(args.files)
                    /\ \A i \in 1..Len(calls) :
                         calls[i].given.params.file_path = args.files[i].path
             ELSE \A i, j \in 1..Len(calls) :
                    i < j => calls[i].method # calls[j].method)
  /\ [][BackendFailed => (calls' = calls \/ (calls' = <<>> /\ pc' = "idle"))]_vars

\* C15 witness: the one call of get_project has failed and the request with it.
C15_Witness ==
  /\ BackendFailed
  /\ request.name = "get_project"
  /\ Len(calls) = 1
  /\ Failed

\* C16: a request that has ended has exactly one outcome, an envelope or an
\* error, and none before it ends; an envelope is returned only when every
\* call has succeeded (for push_files it then holds one result per file), so a
\* push_files request with a failed write returns no envelope; and the outcome
\* stays as it is until the request is over.
C16_OneOutcomeNeverPartial ==
  /\ [](/\ pc # "done" => outcome = NoOutcome
        /\ pc = "done" =>
             /\ outcome.kind \in {"returned", "thrown"}
             /\ outcome.kind = "returned" =>
                  /\ DOMAIN outcome = {"kind", "envelope"}
                  /\ \A i \in 1..Len(calls) : calls[i].status = "ok"
                  /\ request.name = "push_files" =>
                       /\ Len(calls) = Len(args.files)
                       /\ Len(outcome.envelope.content[1].text.json) = Len(args.files)
             /\ outcome.kind = "thrown" => DOMAIN outcome = {"kind", "message"}
             /\ BackendFailed => outcome.kind = "thrown")
  /\ [][pc = "done" => (outcome' = outcome \/ (pc' = "idle" /\ outcome' = NoOutcome))]_vars

\* C16 witness: push_files has failed at its third write with two results
\* collected, and its outcome is an error only.
C16_Witness ==
  /\ PushFilesFailed
  /\ Len(results) = 2
  /\ pc = "done"
  /\ outcome.kind = "thrown"
  /\ DOMAIN outcome = {"kind", "message"}

\* The request being handled has passed the missing-arguments check, the
\* read-only gate and the switch, and its arguments fail the parse.
StructuralFailure ==
  /\ Handling
  /\ request.arguments # Undefined
  /\ ~(GITLAB_READ_ONLY_MODE /\ (~Registered(request.name) \/ Mutating(request.name)))
  /\ request.name \in CaseLabels
  /\ ~ParseOk

\* The violated fields of the request's arguments as "<path>: <reason>", in
\* declaration order: the required fields that are missing and, in push_files,
\* the fields the items of files lack.
Violations ==
  LET a == request.arguments
      schema == CaseSchema(request.name)
      of(f) == IF f \notin DOMAIN a
               THEN IF f \in SchemaRequired(schema) THEN <<f \o ": Required">> ELSE <<>>
               ELSE IF request.name = "push_files" /\ f = "files"
               THEN Concat([i \in 1..Len(a.files) |->
                      Concat([k \in 1..Len(ItemFields) |->
                        IF ItemFields[k] \in DOMAIN a.files[i] THEN <<>>
                        ELSE <<"files." \o ToString(i - 1) \o "." \o ItemFields[k]
                                 \o ": Required">>])])
               ELSE <<>>
  IN  Concat([i \in 1..Len(SchemaShape(schema)) |-> of(SchemaShape(schema)[i])])

\* C17: when the parse of the arguments fails, the request fails with one error
\* whose message is "Invalid arguments: " followed by every violated field as
\* "<path>: <reason>", the path's segments joined by ".", the fields joined by
\* ", "; with several violated fields it is not the report of the first alone.
C17_EveryViolationListed ==
  StructuralFailure =>
    /\ Failed
    /\ calls = <<>>
    /\ Violations # <<>>
    /\ outcome.message = "Invalid arguments: " \o Join(Violations, ", ")
    /\ Len(Violations) >= 2 => outcome.message # "Invalid arguments: " \o Violations[1]

\* C17 witness: push_files whose first item lacks its content and whose second
\* lacks its path has failed with both reported.
C17_Witness ==
  /\ StructuralFailure
  /\ request.name = "push_files"
  /\ Len(Violations) = 2
  /\ outcome = [kind |-> "thrown",
                message |-> "Invalid arguments: files.0.content: Required, files.1.path: Required"]

\* The messages of the cross-field rules the request's arguments violate, in
\* the order per_page, page, then the date fields as declared: a present
\* per_page outside 1..100, a present page below 1, a present date field that
\* holds no calendar date-time.
ViolatedRules ==
  LET a == request.arguments
      dates == IF request.name = "list_commits" THEN CommitDateFields
               ELSE IF request.name \in {"list_issues", "list_merge_requests"} THEN dateFields
               ELSE <<>>
  IN  (IF Has("per_page") /\ (a.per_page < 1 \/ a.per_page > 100)
       THEN <<"per_page must be between 1 and 100">> ELSE <<>>)
      \o (IF Has("page") /\ a.page < 1
          THEN <<"page must be greater than 0">> ELSE <<>>)
      \o Concat([i \in 1..Len(dates) |->
                   IF Has(dates[i]) /\ a[dates[i]] \notin ValidDates
                   THEN <<DateMessage(dates[i])>> ELSE <<>>])

\* C18 as stated: when the arguments violate several cross-field rules, the
\* request fails with the message of the first of them in the order per_page,
\* page, dates as declared, and with no backend call.
C18_FirstViolatedRuleReported ==
  (PaginationRequest /\ Len(ViolatedRules) >= 2) =>
    /\ Failed
    /\ calls = <<>>
    /\ outcome.message = ViolatedRules[1]

\* C19: a request without an arguments object fails with "Arguments are
\* required", whatever its name and whatever the flag; the contract of the name
\* has not been applied (no parsed record, no "Invalid arguments" report) and
\* no backend call has been issued.
C19_MissingArgumentsFirst ==
  (Handling /\ request.arguments = Undefined) =>
    /\ Failed
    /\ outcome.message = "Arguments are required"
    /\ args = Undefined
    /\ calls = <<>>

\* C19 witness: create_issue, whose contract has required fields, was invoked
\* without arguments and has failed with "Arguments are required".
C19_Witness ==
  /\ Handling
  /\ request.name = "create_issue"
  /\ request.arguments = Undefined
  /\ outcome = [kind |-> "thrown", message |-> "Arguments are required"]
  /\ calls = <<>>

\* The request being handled has reached the case of its name with arguments
\* that pass the parse.
Parsed ==
  /\ Handling
  /\ request.arguments # Undefined
  /\ ~(GITLAB_READ_ONLY_MODE /\ (~Registered(request.name) \/ Mutating(request.name)))
  /\ request.name \in CaseLabels
  /\ ParseOk

\* C20 as stated: in every operation, a present page below 1 or a present
\* per_page outside 1..100 makes the request fail with no backend call.
C20_PaginationBoundsEverywhere ==
  (/\ Parsed
   /\ \/ Has("page") /\ request.arguments.page < 1
      \/ Has("per_page") /\ (request.arguments.per_page < 1 \/ request.arguments.per_page > 100))
    => (Failed /\ calls = <<>>)

\* The part of C18 the code does meet, for arguments whose page and per_page
\* are not 0 and whose since and until are not empty.
C18_AsImplemented ==
  (/\ PaginationRequest /\ Len(ViolatedRules) >= 2
   /\ Has("page") => request.arguments.page # 0
   /\ Has("per_page") => request.arguments.per_page # 0
   /\ \A f \in {"since", "until"} : Has(f) => request.arguments[f] # "")
    => (Failed /\ calls = <<>> /\ outcome.message = ViolatedRules[1])

\* C22: the names of the catalog are pairwise distinct, the labels of the
\* switch are pairwise distinct, and the two sets of names are equal; so a
\* registered name with arguments, once past the gate, is never answered with
\* "Unknown tool", and a backend call is only ever issued for a registered name.
C22_CatalogMatchesSwitch ==
  /\ \A i, j \in 1..Len(ALL_TOOLS) : ALL_TOOLS[i].name = ALL_TOOLS[j].name => i = j
  /\ \A i, j \in 1..Len(SwitchCases) : SwitchCases[i] = SwitchCases[j] => i = j
  /\ ToolNames = CaseLabels
  /\ (Handling /\ Registered(request.name) /\ Failed) =>
       outcome.message # UnknownTool(request.name)
  /\ calls # <<>> => Registered(request.name)

\* C22 witness: the last entry of the catalog has reached its case and called
\* the backend.
C22_Witness ==
  /\ Handling
  /\ request.name = ALL_TOOLS[Len(ALL_TOOLS)].name
  /\ request.name = SwitchCases[Len(SwitchCases)]
  /\ calls # <<>>
  /\ calls[1].method = CaseMethod(request.name)

\* C23: no step changes the read-only flag, every answer to a list request is
\* the catalog as built at startup seen through the flag, and an answer to a
\* list request equals the answer to any earlier one, whatever invocations
\* have succeeded or failed in between.
C23_CatalogAndFlagFixed ==
  /\ [](listed # Undefined => listed = ListToolsResult(GITLAB_READ_ONLY_MODE))
  /\ [][/\ GITLAB_READ_ONLY_MODE' = GITLAB_READ_ONLY_MODE
        /\ (listed # Undefined /\ listed' # Undefined) => listed' = listed]_vars

\* C23 witness: a list request has been answered and an invocation has failed.
C23_Witness ==
  /\ listed # Undefined
  /\ Handling
  /\ Failed
  /\ listed = ListToolsResult(GITLAB_READ_ONLY_MODE)

\* The cases that split the parsed record into an identifier and the rest.
SplitCases ==
  [create_issue |-> "project_id", create_merge_request |-> "project_id",
   get_project_events |-> "project_id", list_commits |-> "project_id",
   list_issues |-> "project_id", list_merge_requests |-> "project_id",
   list_project_members |-> "project_id", list_pipelines |-> "project_id",
   get_project_runners |-> "project_id", list_group_projects |-> "group_id",
   list_group_members |-> "group_id", update_runner_settings |-> "runner_id",
   get_runner_jobs |-> "runner_id"]

\* C24: whatever a backend call is given comes from the parsed arguments with
\* its value unchanged; the project, group and issue identifiers are those of
\* the request; and in the cases that split the record into an identifier and
\* an options bag, the bag holds exactly the parsed fields other than the
\* identifier.
C24_ForwardedAsValidated ==
  \A i \in 1..Len(calls) :
    LET given == calls[i].given
    IN  /\ \A id \in {"project_id", "group_id", "issue_iid"} \cap DOMAIN given.params :
             /\ given.params[id] = args[id]
             /\ given.params[id] = request.arguments[id]
        /\ request.name \notin {"push_files", "create_branch"} =>
             /\ DOMAIN given.params \cup DOMAIN given.options \subseteq DOMAIN args
             /\ \A k \in DOMAIN given.params : given.params[k] = args[k]
             /\ \A k \in DOMAIN given.options : given.options[k] = args[k]
        /\ request.name \in DOMAIN SplitCases =>
             LET id == SplitCases[request.name]
             IN  /\ DOMAIN given.params = {id}
                 /\ DOMAIN given.options = DOMAIN args \ {id}
                 /\ \A k \in DOMAIN given.options :
                      given.options[k] = request.arguments[k]

\* C24 witness: list_commits was called with the project identifier and an
\* options bag of exactly the page and the page size of the request.
C24_Witness ==
  /\ Handling
  /\ request.name = "list_commits"
  /\ calls # <<>>
  /\ calls[1].given = [params |-> [project_id |-> "123"],
                       options |-> [page |-> MaxPage, per_page |-> MaxPerPage]]

\* C25: an invocation of a case on the default response path that succeeds
\* returns an envelope of exactly one block, of type "text", holding the
\* serialised backend result; for push_files the result is the list of the
\* results of its writes, one per file, also when there is no file.
C25_OneTextBlock ==
  (Handling /\ pc = "done" /\ outcome.kind = "returned"
   /\ CaseResponse(request.name) = "json") =>
    LET content == outcome.envelope.content
    IN  /\ DOMAIN outcome.envelope = {"content"}
        /\ Len(content) = 1
        /\ DOMAIN content[1] = {"type", "text"}
        /\ content[1].type = "text"
        /\ content[1].text = JSONstringify(IF request.name = "push_files" THEN results
                                           ELSE BackendResult(calls[Len(calls)]))
        /\ request.name = "push_files" => Len(content[1].text.json) = Len(args.files)

\* C25 witness: push_files with no file has succeeded with one text block.
C25_Witness ==
  /\ Handling
  /\ request.name = "push_files"
  /\ args # Undefined
  /\ args.files = <<>>
  /\ pc = "done"
  /\ outcome.kind = "returned"
  /\ Len(outcome.envelope.content) = 1

\* The names a list request was answered with.
ListedNames == {listed.tools[k].name : k \in 1..Len(listed.tools)}

\* The request was refused by the gate or by the switch.
RefusedByName ==
  /\ Failed
  /\ outcome.message \in {NotAvailable(request.name), UnknownTool(request.name)}

\* C26: under either value of the flag, an invocation with arguments is
\* refused as not available or as unknown exactly when its name is not among
\* the names a list request is answered with.
C26_ListedIffInvocable ==
  (Handling /\ request.arguments # Undefined /\ listed # Undefined) =>
    (~RefusedByName <=> request.name \in ListedNames)

\* C26 witness: under the flag a listed tool has got through to the backend
\* after a list request was answered.
C26_Witness ==
  /\ GITLAB_READ_ONLY_MODE
  /\ listed # Undefined
  /\ Handling
  /\ request.name \in ListedNames
  /\ calls # <<>>

C29_LookupOnlyWhenRefAbsent ==
  (Handling /\ request.name = "create_branch" /\ calls # <<>>) =>
    /\ \A i \in 1..Len(calls) :
         /\ calls[i].method = "getDefaultBranchRef" => (i = 1 /\ ~Has("ref"))
         /\ calls[i].method = "createBranch" =>
              /\ i = Len(calls)
              /\ i = 2 => (calls[1].method = "getDefaultBranchRef" /\ calls[1].status = "ok")
    /\ ~Has("ref") => calls[1].method = "getDefaultBranchRef"
    /\ Has("ref") =>
         /\ Len(calls) = 1
         /\ calls[1].method = "createBranch"
         /\ calls[1].given.options.ref = request.arguments.ref

\* The part of C29 the code does meet, the empty string counting as no ref.
C29_AsImplemented ==
  (Handling /\ request.name = "create_branch" /\ calls # <<>>) =>
    /\ \A i \in 1..Len(calls) :
         /\ calls[i].method = "getDefaultBranchRef" => (i = 1 /\ RefMissing(request.arguments))
         /\ calls[i].method = "createBranch" =>
              /\ i = Len(calls)
              /\ i = 2 => (calls[1].method = "getDefaultBranchRef" /\ calls[1].status = "ok")
    /\ RefMissing(request.arguments) => calls[1].method = "getDefaultBranchRef"
    /\ ~RefMissing(request.arguments) =>
         /\ Len(calls) = 1
         /\ calls[1].method = "createBranch"
         /\ calls[1].given.options.ref = request.arguments.ref

\* C30: when every awaited backend call settles, an invocation that has
\* arrived is awaiting a call or has completed, and one that awaits a call
\* eventually completes with an envelope or an error; push_files issues no
\* more calls than it has files and every other operation no more than two.
C30_CompletesWithBoundedCalls ==
  /\ [](Handling =>
          /\ pc \in {"awaiting", "done"}
          /\ pc = "done" => outcome.kind \in {"returned", "thrown"}
          /\ Len(calls) <= IF request.name = "push_files" /\ calls # <<>>
                           THEN Len(args.files) ELSE 2)
  /\ (pc = "awaiting") ~> (pc = "done")

\* C30 witness: create_branch without a ref has completed after its two calls.
C30_Witness ==
  /\ Handling
  /\ request.name = "create_branch"
  /\ Len(calls) = 2
  /\ pc = "done"
  /\ outcome.kind = "returned"

\* What the backend answered to the settled calls of a run, in order: NoError
\* for a call that resolved, the error of one that rejected.
Responses(issued) ==
  LET settled == SelectSeq(issued, LAMBDA c : c.status # "pending")
  IN  [i \in 1..Len(settled) |-> settled[i].error]

\* The run h taken on through the given backend answers, one per await.
RECURSIVE Replay(_, _)
Replay(h, responses) ==
  IF responses = <<>> \/ h.pc # "awaiting" THEN h
  ELSE Replay(IF Head(responses) = NoError THEN Resolve(h) ELSE Reject(h, Head(responses)),
              Tail(responses))

\* A request handled alone under a value of the flag with the given backend
\* answers.
Alone(readOnlyMode, req, responses) ==
  Replay(Start(readOnlyMode, req.name, req.arguments), responses)

\* The locals, calls and outcome of the request being handled.
Locals ==
  [request |-> request, pc |-> pc, args |-> args, ref |-> ref, results |-> results,
   calls |-> calls, outcome |-> outcome]

\* The handler of one request at a time and the run of an overlapping
\* invocation are the same handler.
HandlerAgrees ==
  Handling => Locals = Alone(GITLAB_READ_ONLY_MODE, request, Responses(calls))

C27_FlagIrrelevantForReadOnly ==
  (Handling /\ Registered(request.name) /\ ~Mutating(request.name)) =>
    /\ Locals = Alone(TRUE, request, Responses(calls))
    /\ Locals = Alone(FALSE, request, Responses(calls))

\* C27 witness: under the flag a readOnly tool has returned its envelope.
C27_Witness ==
  /\ GITLAB_READ_ONLY_MODE
  /\ Handling
  /\ Registered(request.name)
  /\ ~Mutating(request.name)
  /\ pc = "done"
  /\ outcome.kind = "returned"
  /\ Locals = Alone(FALSE, request, Responses(calls))

====
